---- MODULE Spec2Model ----
(***************************************************************************)
(* SuperTrend Cloud trading bot: the zone-transition state machine         *)
(* (app/strategy/state_machine.py), the order manager                      *)
(* (app/exchange/order_manager.py), the reconciliation and scheduling loop *)
(* (app/trading/bot_controller.py) and the control routes                  *)
(* (app/web/routes.py), over an exchange gateway that may fail.            *)
(*                                                                         *)
(* The program runs on one asyncio event loop: the code between two awaits *)
(* is one atomic step.  Each action below is one such step.  Where a claim *)
(* needs the state between two functions that run in one step (the         *)
(* reconciliation and process_signal), the step is split in two and the    *)
(* guard ~Busy keeps every other coroutine from running in between.        *)
(*                                                                         *)
(* Signal texts are the code's, with its arrow written "->".               *)
(* Quantities are integers counting tenths of a contract (qty_step 1 is    *)
(* the exchange's "0.1"), prices are integers in USDT per tenth.  The      *)
(* code computes on doubles: where the double result differs from the      *)
(* exact one on the values drawn here, the model follows the double        *)
(* (FloatShort).                                                           *)
(***************************************************************************)
EXTENDS Integers, Sequences, FiniteSets, TLC

\* ------------------------------------------------------------------ bounds
\* Candle open times per symbol run 1..MaxCandles.
MaxCandles == 4
\* The exchange position size is capped (an opening fill that would exceed
\* it is not offered by the exchange model).
MaxSize == 2
\* Length of the observation sequence fed to process_signal in SpecSM.
MaxSteps == 6

\* ------------------------------------------------- configuration (config.py)
Symbols == {"BTCUSDT"}
POSITION_SIZE_USDT == 100

\* ---------------------------------------------------------- input domains
Zones == {"OVER", "UNDER", "IN"}
\* Ticker / close prices the market can show.
Prices == {50, 100}
\* Cloud boundaries the indicator can produce (lower <= upper).
CloudLevels == {50, 100}
\* unrealisedPnl values the exchange can report for an open position.
PnlValues == {7}

Max(a, b) == IF a >= b THEN a ELSE b
Min(a, b) == IF a <= b THEN a ELSE b

VARIABLES
    trading_enabled,     \* TradingState.trading_enabled
    positions,           \* TradingState.positions: symbol -> PositionState
    is_running,          \* BotController.is_running
    last_candle_times,   \* BotController.last_candle_times (0: symbol absent)
    instruments_cache,   \* OrderManager.instruments_cache (FALSE: absent)
    loop,                \* the trading_loop task: "none" | "gather" | "sleep"
    task,                \* symbol -> the process_symbol task of the cycle
    fc,                  \* the force_close_all handler
    exch,                \* the exchange's position per symbol
    market,              \* the open time of the exchange's latest closed
                         \* candle per symbol
    exchChanged,         \* history: exchange position changed since the
                         \* symbol's last state-machine run
    hist,                \* SpecSM, SpecFn: the observations fed and what
                         \* came back; SpecOM, SpecQty: the calls made and
                         \* what they returned; SpecCtl: the steps of
                         \* start() and update_config with the settings and
                         \* connection_ok they leave; SpecST: the candles
                         \* with the band arrays; SpecZone: the get_zone
                         \* call; SpecTasks: the coroutines created
    allOk                \* SpecSM: trading enabled and every order succeeded

vars == <<trading_enabled, positions, is_running, last_candle_times,
          instruments_cache, loop, task, fc, exch, market, exchChanged,
          hist, allOk>>

\* -------------------------------------------------------------- models.py
\* PositionState(symbol): the dataclass defaults.  last_update (wall clock)
\* is not modelled.
PositionState ==
    [pos_state |-> "FLAT", prev_zone |-> "NONE", current_zone |-> "NONE",
     qty |-> 0, entry_price |-> 0, unrealized_pnl |-> 0,
     last_signal |-> "N/A", last_candle_time |-> 0]

\* ---------------------------------------------------- supertrend_cloud.py
\* A variant of get_zone that counts a close on the upper boundary as above
\* the cloud.
GetZoneUpperInclusive(close, upper_cloud, lower_cloud) ==
    IF close >= upper_cloud THEN "OVER"
    ELSE IF close < lower_cloud THEN "UNDER"
    ELSE "IN"

get_zone(close, upper_cloud, lower_cloud) ==
    IF close > upper_cloud THEN "OVER"
    ELSE IF close < lower_cloud THEN "UNDER"
    ELSE "IN"

\* ------------------------------------------------------- state_machine.py
\* _calculate_expected_qty
calculate_expected_qty(price) ==
    IF price <= 0 THEN 0 ELSE POSITION_SIZE_USDT \div price

\* A variant of SMAction that also reverses when the price leaves the cloud
\* against the position (the behaviour C6 excludes).
SMActionReverseOnExit(pos_state, prev_zone, current_zone) ==
    IF current_zone = "OVER" /\ prev_zone \in {"UNDER", "IN"} THEN
        IF pos_state = "FLAT" THEN "open_long"
        ELSE IF pos_state = "SHORT" THEN "reverse_to_long"
        ELSE "none"
    ELSE IF current_zone = "UNDER" /\ prev_zone \in {"OVER", "IN"} THEN
        IF pos_state = "FLAT" THEN "open_short"
        ELSE IF pos_state = "LONG" THEN "reverse_to_short"
        ELSE "none"
    ELSE IF current_zone = "IN" /\ prev_zone \in {"OVER", "UNDER"} THEN
        IF pos_state \in {"LONG", "SHORT"} THEN "close_position" ELSE "none"
    ELSE "none"

\* A variant of SMAction that holds the position when the price enters the
\* cloud (the scenario of C9 tells it apart).
SMActionNoCloseInCloud(pos_state, prev_zone, current_zone) ==
    IF current_zone = "OVER" /\ prev_zone \in {"UNDER", "IN"} THEN
        IF pos_state = "FLAT" THEN "open_long"
        ELSE IF pos_state = "SHORT" /\ prev_zone = "UNDER" THEN "reverse_to_long"
        ELSE "none"
    ELSE IF current_zone = "UNDER" /\ prev_zone \in {"OVER", "IN"} THEN
        IF pos_state = "FLAT" THEN "open_short"
        ELSE IF pos_state = "LONG" /\ prev_zone = "OVER" THEN "reverse_to_short"
        ELSE "none"
    ELSE "none"

\* A variant of SMAction that opens only on a complete crossing, not when
\* the price leaves the cloud.
SMActionOpenOnCrossingOnly(pos_state, prev_zone, current_zone) ==
    IF current_zone = "OVER" /\ prev_zone = "UNDER" THEN
        IF pos_state = "FLAT" THEN "open_long"
        ELSE IF pos_state = "SHORT" THEN "reverse_to_long"
        ELSE "none"
    ELSE IF current_zone = "UNDER" /\ prev_zone = "OVER" THEN
        IF pos_state = "FLAT" THEN "open_short"
        ELSE IF pos_state = "LONG" THEN "reverse_to_short"
        ELSE "none"
    ELSE IF current_zone = "IN" /\ prev_zone \in {"OVER", "UNDER"} THEN
        IF pos_state \in {"LONG", "SHORT"} THEN "close_position" ELSE "none"
    ELSE "none"

\* The order-manager operation the branch structure of process_signal
\* reaches for (pos_state, prev_zone, current_zone), "none" when the branch
\* places no order.  Called only with prev_zone not NONE and not
\* current_zone.
SMAction(pos_state, prev_zone, current_zone) ==
    IF current_zone = "OVER" /\ prev_zone \in {"UNDER", "IN"} THEN
        IF pos_state = "FLAT" THEN "open_long"
        ELSE IF pos_state = "SHORT" /\ prev_zone = "UNDER" THEN "reverse_to_long"
        ELSE "none"
    ELSE IF current_zone = "UNDER" /\ prev_zone \in {"OVER", "IN"} THEN
        IF pos_state = "FLAT" THEN "open_short"
        ELSE IF pos_state = "LONG" /\ prev_zone = "OVER" THEN "reverse_to_short"
        ELSE "none"
    ELSE IF current_zone = "IN" /\ prev_zone \in {"OVER", "UNDER"} THEN
        IF pos_state \in {"LONG", "SHORT"} THEN "close_position" ELSE "none"
    ELSE "none"

\* The signal text process_signal builds on the same branches.
SMSignal(pos_state, prev_zone, current_zone) ==
    IF current_zone = "OVER" /\ prev_zone \in {"UNDER", "IN"} THEN
        LET head == IF prev_zone = "UNDER" THEN "Crossover Cloud -> "
                    ELSE "Exit Cloud Up -> "
        IN  IF pos_state = "FLAT" THEN head \o "Open LONG"
            ELSE IF pos_state = "SHORT" /\ prev_zone = "UNDER"
                 THEN head \o "Reverse SHORT -> LONG"
            ELSE head
    ELSE IF current_zone = "UNDER" /\ prev_zone \in {"OVER", "IN"} THEN
        LET head == IF prev_zone = "OVER" THEN "Crossunder Cloud -> "
                    ELSE "Exit Cloud Down -> "
        IN  IF pos_state = "FLAT" THEN head \o "Open SHORT"
            ELSE IF pos_state = "LONG" /\ prev_zone = "OVER"
                 THEN head \o "Reverse LONG -> SHORT"
            ELSE head
    ELSE IF current_zone = "IN" /\ prev_zone \in {"OVER", "UNDER"} THEN
        IF pos_state \in {"LONG", "SHORT"}
        THEN "Enter Cloud -> Close " \o pos_state
        ELSE "Enter Cloud (already FLAT)"
    ELSE "No signal"

\* qty_to_close = state.qty if state.qty > 0 else estimate
QtyToClose(st, price) ==
    IF st.qty > 0 THEN st.qty ELSE calculate_expected_qty(price)

\* A variant of SMInitialize that leaves prev_zone at NONE.
SMInitializeZoneOnly(st, current_zone) ==
    [st EXCEPT !.current_zone = current_zone]

\* A variant of SMInitialize that records the zone as prev_zone only.
SMInitializePrevOnly(st, current_zone) ==
    [st EXCEPT !.prev_zone = current_zone]

\* Lines 58-62: first observation.
SMInitialize(st, current_zone) ==
    [st EXCEPT !.current_zone = current_zone, !.prev_zone = current_zone]

\* A variant of SMHold that leaves last_signal as it was.
SMHoldZoneOnly(st, current_zone) ==
    [st EXCEPT !.current_zone = current_zone]

\* Lines 65-68: zone unchanged.
SMHold(st, current_zone) ==
    [st EXCEPT !.current_zone = current_zone, !.last_signal = "Holding"]

\* A variant of SMAdvance that leaves prev_zone as it was.
SMAdvanceKeepsPrev(st, current_zone, signal) ==
    [st EXCEPT !.current_zone = current_zone, !.last_signal = signal]

\* Lines 202-205: success, or no order attempted.
SMAdvance(st, current_zone, signal) ==
    [st EXCEPT !.current_zone = current_zone, !.prev_zone = current_zone,
               !.last_signal = signal]

\* A variant of SMKeep that advances prev_zone after a failed order.
SMKeepAdvancing(st, current_zone, signal) ==
    [st EXCEPT !.current_zone = current_zone, !.prev_zone = current_zone,
               !.last_signal = signal]

\* Lines 206-210: an order failed.
SMKeep(st, current_zone, signal) ==
    [st EXCEPT !.current_zone = current_zone, !.last_signal = signal]

\* A variant of SMFilled that writes pos_state only.
SMFilledStateOnly(st, op, price) ==
    IF op \in {"open_long", "reverse_to_long"} THEN
        [st EXCEPT !.pos_state = "LONG"]
    ELSE IF op \in {"open_short", "reverse_to_short"} THEN
        [st EXCEPT !.pos_state = "SHORT"]
    ELSE
        [st EXCEPT !.pos_state = "FLAT"]

\* The position fields a successful order writes (lines 84-87, 110-112,
\* 135-137, 159-161, 183-185).
SMFilled(st, op, price) ==
    IF op \in {"open_long", "reverse_to_long"} THEN
        [st EXCEPT !.pos_state = "LONG", !.entry_price = price,
                   !.qty = calculate_expected_qty(price)]
    ELSE IF op \in {"open_short", "reverse_to_short"} THEN
        [st EXCEPT !.pos_state = "SHORT", !.entry_price = price,
                   !.qty = calculate_expected_qty(price)]
    ELSE
        [st EXCEPT !.pos_state = "FLAT", !.entry_price = 0, !.qty = 0]

\* A variant of SMCallResult that orders whatever trading_enabled says.
SMCallResultAlwaysOrders(st, current_zone, price, enabled) ==
    LET prev_zone == st.prev_zone
        pos_state == st.pos_state
        op        == SMAction(pos_state, prev_zone, current_zone)
        signal    == SMSignal(pos_state, prev_zone, current_zone)
    IN  IF prev_zone = "NONE" THEN
            [state |-> SMInitialize(st, current_zone), op |-> "none",
             success |-> TRUE, signal |-> "Initializing"]
        ELSE IF prev_zone = current_zone THEN
            [state |-> SMHold(st, current_zone), op |-> "none",
             success |-> TRUE, signal |-> "Holding"]
        ELSE IF op = "none" THEN
            [state |-> SMAdvance(st, current_zone, signal), op |-> "none",
             success |-> TRUE, signal |-> signal]
        ELSE IF op = "close_position" /\ QtyToClose(st, price) <= 0 THEN
            [state |-> SMKeep(st, current_zone, signal \o " (NO QTY)"),
             op |-> "none", success |-> FALSE,
             signal |-> signal \o " (NO QTY)"]
        ELSE
            [state |-> st, op |-> op, success |-> TRUE, signal |-> signal]

\* process_signal from its entry to its first await or its return.
\* Result: the state written so far, the order-manager operation awaited
\* ("none": process_signal has returned), success and signal.
SMCallResult(st, current_zone, price, enabled) ==
    LET prev_zone == st.prev_zone
        pos_state == st.pos_state
        op        == SMAction(pos_state, prev_zone, current_zone)
        signal    == SMSignal(pos_state, prev_zone, current_zone)
    IN  IF prev_zone = "NONE" THEN
            [state |-> SMInitialize(st, current_zone), op |-> "none",
             success |-> TRUE, signal |-> "Initializing"]
        ELSE IF prev_zone = current_zone THEN
            [state |-> SMHold(st, current_zone), op |-> "none",
             success |-> TRUE, signal |-> "Holding"]
        ELSE IF op = "none" \/ ~enabled THEN
            [state |-> SMAdvance(st, current_zone, signal), op |-> "none",
             success |-> TRUE, signal |-> signal]
        ELSE IF op = "close_position" /\ QtyToClose(st, price) <= 0 THEN
            [state |-> SMKeep(st, current_zone, signal \o " (NO QTY)"),
             op |-> "none", success |-> FALSE,
             signal |-> signal \o " (NO QTY)"]
        ELSE
            [state |-> st, op |-> op, success |-> TRUE, signal |-> signal]

\* A variant of SMCommit that advances the zones whatever the order's
\* result.
SMCommitAdvancesOnFailure(st, op, current_zone, price, success, signal) ==
    IF success
    THEN SMAdvance(SMFilled(st, op, price), current_zone, signal)
    ELSE SMAdvance(st, current_zone, signal \o " (FAILED)")

\* process_signal after the awaited order-manager operation returned
\* `success`: the writes up to the return.
SMCommit(st, op, current_zone, price, success, signal) ==
    IF success
    THEN SMAdvance(SMFilled(st, op, price), current_zone, signal)
    ELSE SMKeep(st, current_zone, signal \o " (FAILED)")

SMReturnSignal(success, signal) ==
    IF success THEN signal ELSE signal \o " (FAILED)"


\* -------------------------------------------------------- bybit_client.py
\* The gateway's answer to /v5/position/list: retCode 0 with a list, or a
\* failure (_request turns every transport error into retCode -1).
FailedResponse == [retCode |-> -1, list |-> <<>>]

\* What the exchange can answer for position p: a failure; on success the
\* record of p (a size-0 record or no record at all when there is none).
PositionResponses(p) ==
    {FailedResponse} \cup
    IF p.size > 0
    THEN {[retCode |-> 0,
           list |-> <<[size |-> p.size, side |-> p.side,
                       avgPrice |-> p.avgPrice, unrealisedPnl |-> pnl]>>]
            : pnl \in PnlValues}
    ELSE {[retCode |-> 0, list |-> <<>>],
          [retCode |-> 0,
           list |-> <<[size |-> 0, side |-> "", avgPrice |-> 0,
                       unrealisedPnl |-> 0]>>]}

\* BybitClient.get_positions: the list on retCode 0, [] otherwise.
get_positions(resp) ==
    IF resp.retCode = 0 THEN resp.list ELSE <<>>

\* The exchange's instrument record (lotSizeFilter) for every symbol.
InstrumentInfo ==
    [qtyStep |-> 1, minOrderQty |-> 1, maxOrderQty |-> 1000,
     minNotionalValue |-> 5]

NoPosition == [side |-> "", size |-> 0, avgPrice |-> 0]

\* The exchange's position after a market order of `qty` on `side` fills at
\* `price` (one-way mode).  A reduce-only order only shrinks an opposite
\* position.
ExchFill(p, side, qty, reduce_only, price) ==
    IF reduce_only THEN
        IF p.size > qty THEN [p EXCEPT !.size = p.size - qty] ELSE NoPosition
    ELSE IF p.size = 0 THEN [side |-> side, size |-> qty, avgPrice |-> price]
    ELSE IF p.side = side THEN [p EXCEPT !.size = p.size + qty]
    ELSE IF p.size > qty THEN [p EXCEPT !.size = p.size - qty]
    ELSE IF p.size = qty THEN NoPosition
    ELSE [side |-> side, size |-> qty - p.size, avgPrice |-> price]

\* Whether the exchange can fill the order at all.
CanFill(p, side, qty, reduce_only) ==
    /\ qty > 0
    /\ reduce_only => (p.size > 0 /\ p.side # side)
    /\ ExchFill(p, side, qty, reduce_only, 0).size <= MaxSize

\* The outcomes of place_market_order: rejected (no order id), accepted
\* and filled, accepted and cancelled unfilled (IOC).
OrderOutcomes(p, side, qty, reduce_only) ==
    {"rejected", "unfilled"} \cup
    (IF CanFill(p, side, qty, reduce_only) THEN {"filled"} ELSE {})

\* -------------------------------------------------------- order_manager.py
\* adjust_quantity, on the raw quantity num/den.
\* The (num, den, qty_step), among the values drawn in this module, on
\* which the double (num / den) / qty_step is just below the whole number
\* the exact quotient is: 30 / 100 / 0.1 and 30 / 50 / 0.2 are
\* 2.9999999999999996, 30 / 50 / 0.1 is 5.999999999999999.
FloatShort == {<<30, 10, 1>>, <<30, 5, 2>>, <<30, 5, 1>>}

\* math.floor(qty / qty_step) for qty = num / den (line 47).
math_floor(num, den, qty_step) ==
    IF <<num, den, qty_step>> \in FloatShort
    THEN (num \div (den * qty_step)) - 1
    ELSE num \div (den * qty_step)

\* adjust_quantity on qty = num / den: floor to the step, then clamp.
adjust_quantity(num, den, qty_step, min_qty, max_qty) ==
    LET floored == IF qty_step > 0
                   THEN math_floor(num, den, qty_step) * qty_step
                   ELSE num \div den
    IN  Max(min_qty, Min(floored, max_qty))

\* calculate_order_qty with the instrument info at hand.
calculate_order_qty(info, notional_usdt, current_price) ==
    LET qty == adjust_quantity(notional_usdt, current_price, info.qtyStep,
                               info.minOrderQty, info.maxOrderQty)
    IN  IF qty * current_price < info.minNotionalValue
        THEN adjust_quantity(info.minNotionalValue, current_price,
                             info.qtyStep, info.minOrderQty, info.maxOrderQty)
        ELSE qty

\* close_position's order side.
CloseSide(side) == IF side = "LONG" THEN "Sell" ELSE "Buy"
\* open_long / open_short's order side.
OpenSide(op) ==
    IF op \in {"open_long", "reverse_to_long"} THEN "Buy" ELSE "Sell"

\* ------------------------------------------------------ bot_controller.py
MinCandles == 50
CANDLES_LIMIT == 400
\* How many klines the gateway can return: none (a failure), too few, all.
KlineCounts == {0, MinCandles - 1, CANDLES_LIMIT}

\* A variant of SyncHolding that takes every position for a long one.
SyncHoldingAlwaysLong(st, pos) ==
    [st EXCEPT !.qty = pos.size,
               !.pos_state = "LONG",
               !.entry_price = pos.avgPrice,
               !.unrealized_pnl = pos.unrealisedPnl]

\* update_position_from_exchange, lines 136-139: the exchange holds a size.
SyncHolding(st, pos) ==
    [st EXCEPT !.qty = pos.size,
               !.pos_state = IF pos.side = "Buy" THEN "LONG" ELSE "SHORT",
               !.entry_price = pos.avgPrice,
               !.unrealized_pnl = pos.unrealisedPnl]

\* A variant of SyncFlat that keeps qty and entry_price.
SyncFlatKeepsQty(st) ==
    [st EXCEPT !.pos_state = "FLAT", !.unrealized_pnl = 0]

\* Lines 144-147 and 153-156: reset to FLAT.
SyncFlat(st) ==
    [st EXCEPT !.pos_state = "FLAT", !.qty = 0, !.entry_price = 0,
               !.unrealized_pnl = 0]

\* A variant of update_position_from_exchange that leaves the state alone
\* whenever no record is returned.
UpdateFromExchangeKeepsOnEmpty(st, list) ==
    IF Len(list) > 0 THEN
        IF list[1].size > 0 THEN SyncHolding(st, list[1]) ELSE SyncFlat(st)
    ELSE st

\* update_position_from_exchange after get_positions returned `list`.
update_position_from_exchange(st, list) ==
    IF Len(list) > 0 THEN
        IF list[1].size > 0 THEN SyncHolding(st, list[1]) ELSE SyncFlat(st)
    ELSE IF st.pos_state # "FLAT" THEN SyncFlat(st)
    ELSE st

\* A variant of QuietSignals that also skips the resync after the signals
\* that come with no order.
QuietSignalsAndNoOrder ==
    {"No signal", "Holding", "Initializing", "Exit Cloud Up -> ",
     "Exit Cloud Down -> ", "Crossover Cloud -> ", "Crossunder Cloud -> ",
     "Enter Cloud (already FLAT)"}

\* Signals after which process_symbol does not resync (line 241).
QuietSignals == {"No signal", "Holding", "Initializing"}

\* Where a process_symbol task has returned: at its end ("done"), at the
\* return for too few klines ("short") or for a candle already processed
\* ("same"), or in its except clause ("failed", lines 252-253).
Returned == {"done", "short", "same", "failed"}

\* A process_symbol task that has not returned: the await it is at.
InFlight == {"fetch", "sync", "order", "postsync"}

IdleTask ==
    [pc |-> "done", candle |-> 0, zone |-> "NONE", price |-> 0,
     pos_state |-> "FLAT", op |-> "none", phase |-> "none",
     qty_to_close |-> 0, signal |-> "", success |-> TRUE]

\* A coroutine is in the middle of a step (between the reconciliation and
\* process_signal, which no await separates): nothing else runs.
Busy == \E s \in DOMAIN task : task[s].pc = "sm"

SymbolList == <<"BTCUSDT">>
IdleFc ==
    [pc |-> "idle", i |-> 0, qty |-> 0, side |-> "FLAT",
     closed_count |-> 0, failed_count |-> 0]

\* ------------------------------------------------------------------ Init
Init ==
    /\ trading_enabled = FALSE
    /\ positions = [s \in Symbols |-> PositionState]
    /\ is_running = FALSE
    /\ last_candle_times = [s \in Symbols |-> 0]
    /\ instruments_cache = [s \in Symbols |-> FALSE]
    /\ loop = "none"
    /\ task = [s \in Symbols |-> IdleTask]
    /\ fc = IdleFc
    /\ exch = [s \in Symbols |-> NoPosition]
    /\ market = [s \in Symbols |-> 1]
    /\ exchChanged = [s \in Symbols |-> FALSE]
    /\ hist = <<>>
    /\ allOk = TRUE

\* --------------------------------------------- process_symbol, step by step
TickerAnswers == Prices \cup {0}     \* 0: get_ticker returned no data

IsReverse(op) == op \in {"reverse_to_long", "reverse_to_short"}

\* A variant of PSFetchShort that records the latest candle as processed.
PSFetchShortRecordsCandle(s, n) ==
    /\ ~Busy
    /\ task[s].pc = "fetch"
    /\ n < MinCandles
    /\ task' = [task EXCEPT ![s] = [IdleTask EXCEPT !.pc = "short"]]
    /\ last_candle_times' = [last_candle_times EXCEPT ![s] = market[s]]
    /\ UNCHANGED <<trading_enabled, positions, is_running,
                   instruments_cache, loop, fc, exch, market, exchChanged,
                   hist, allOk>>

\* Lines 166-174: no klines, or fewer than the minimum: the cycle is skipped.
PSFetchShort(s, n) ==
    /\ ~Busy
    /\ task[s].pc = "fetch"
    /\ n < MinCandles
    /\ task' = [task EXCEPT ![s] = [IdleTask EXCEPT !.pc = "short"]]
    /\ UNCHANGED <<trading_enabled, positions, is_running, last_candle_times,
                   instruments_cache, loop, fc, exch, market, exchChanged,
                   hist, allOk>>

\* Lines 181-185: the latest candle is the one already processed.
PSFetchSame(s) ==
    /\ ~Busy
    /\ task[s].pc = "fetch"
    /\ last_candle_times[s] # 0
    /\ market[s] = last_candle_times[s]
    /\ task' = [task EXCEPT ![s] = [IdleTask EXCEPT !.pc = "same"]]
    /\ UNCHANGED <<trading_enabled, positions, is_running, last_candle_times,
                   instruments_cache, loop, fc, exch, market, exchChanged,
                   hist, allOk>>

\* A variant of PSFetchNew that does not record the candle it processes.
PSFetchNewUnrecorded(s, close, upper, lower, ticker) ==
    /\ ~Busy
    /\ task[s].pc = "fetch"
    /\ lower <= upper
    /\ last_candle_times[s] = 0 \/ market[s] # last_candle_times[s]
    /\ task' = [task EXCEPT ![s] =
                  [IdleTask EXCEPT !.pc = "sync",
                                   !.candle = market[s],
                                   !.zone = get_zone(close, upper, lower),
                                   !.price = IF ticker # 0 THEN ticker
                                             ELSE close]]
    /\ UNCHANGED <<trading_enabled, positions, is_running, last_candle_times,
                   instruments_cache, loop, fc, exch, market, exchChanged,
                   hist, allOk>>

\* Lines 176-216: a new closed candle: record it, compute the zone of its
\* close against the cloud, fetch the ticker (falling back to the close),
\* and wait for the positions.  The candle's close and its cloud are drawn
\* here, where they are first read: a candle is read at most once.
PSFetchNew(s, close, upper, lower, ticker) ==
    /\ ~Busy
    /\ task[s].pc = "fetch"
    /\ lower <= upper
    /\ last_candle_times[s] = 0 \/ market[s] # last_candle_times[s]
    /\ last_candle_times' = [last_candle_times EXCEPT ![s] = market[s]]
    /\ task' = [task EXCEPT ![s] =
                  [IdleTask EXCEPT !.pc = "sync",
                                   !.candle = market[s],
                                   !.zone = get_zone(close, upper, lower),
                                   !.price = IF ticker # 0 THEN ticker
                                             ELSE close]]
    /\ UNCHANGED <<trading_enabled, positions, is_running,
                   instruments_cache, loop, fc, exch, market, exchChanged,
                   hist, allOk>>

\* Lines 220-229: the reconciliation before the state machine, then the
\* zone and candle time written to the state.
PSPreSync(s, resp) ==
    /\ ~Busy
    /\ task[s].pc = "sync"
    /\ positions' = [positions EXCEPT ![s] =
          [update_position_from_exchange(@, get_positions(resp))
             EXCEPT !.current_zone = task[s].zone,
                    !.last_candle_time = task[s].candle]]
    /\ task' = [task EXCEPT ![s].pc = "sm"]
    /\ UNCHANGED <<trading_enabled, is_running, last_candle_times,
                   instruments_cache, loop, fc, exch, market, exchChanged,
                   hist, allOk>>

\* Lines 232-237 and process_signal up to its first await or its return.
SMCall(s) ==
    /\ task[s].pc = "sm"
    /\ LET t == task[s]
           r == SMCallResult(positions[s], t.zone, t.price, trading_enabled)
       IN  /\ positions' = [positions EXCEPT ![s] = r.state]
           /\ task' = [task EXCEPT ![s] =
                IF r.op = "none" THEN
                    IF r.signal \in QuietSignals THEN IdleTask
                    ELSE [t EXCEPT !.pc = "postsync", !.signal = r.signal,
                                   !.success = r.success]
                ELSE [t EXCEPT !.pc = "order", !.op = r.op,
                               !.phase = IF IsReverse(r.op) THEN "close"
                                         ELSE "single",
                               !.pos_state = positions[s].pos_state,
                               !.qty_to_close =
                                   IF r.op \in {"open_long", "open_short"}
                                   THEN 0
                                   ELSE QtyToClose(positions[s], t.price),
                               !.signal = r.signal]]
    /\ exchChanged' = [exchChanged EXCEPT ![s] = FALSE]
    /\ UNCHANGED <<trading_enabled, is_running, last_candle_times,
                   instruments_cache, loop, fc, exch, market, hist, allOk>>

\* process_signal resumes with the order manager's result and returns.
SMResume(s, success) ==
    /\ positions' = [positions EXCEPT ![s] =
          SMCommit(@, task[s].op, task[s].zone, task[s].price, success,
                   task[s].signal)]
    /\ task' = [task EXCEPT ![s].pc = "postsync", ![s].success = success,
                            ![s].phase = "none",
                            ![s].signal = SMReturnSignal(success, @)]

\* A variant of OMClose in which reverse_position goes on to the opening
\* order whatever the close returned.
OMCloseThenOpenAnyway(s, outcome) ==
    /\ ~Busy
    /\ task[s].pc = "order"
    /\ \/ task[s].op = "close_position"
       \/ IsReverse(task[s].op) /\ task[s].phase = "close"
    /\ LET t    == task[s]
           side == CloseSide(t.pos_state)
           ok   == outcome # "rejected"
       IN  /\ outcome \in (IF t.qty_to_close <= 0 THEN {"rejected"}
                           ELSE OrderOutcomes(exch[s], side, t.qty_to_close,
                                              TRUE))
           /\ exch' = [exch EXCEPT ![s] =
                         IF outcome = "filled"
                         THEN ExchFill(@, side, t.qty_to_close, TRUE, t.price)
                         ELSE @]
           /\ exchChanged' = [exchChanged EXCEPT ![s] = @ \/ outcome = "filled"]
           /\ IF t.op = "close_position"
              THEN SMResume(s, ok)
              ELSE /\ task' = [task EXCEPT ![s].phase = "open"]
                   /\ UNCHANGED positions
    /\ UNCHANGED <<trading_enabled, is_running, last_candle_times,
                   instruments_cache, loop, fc, market, hist, allOk>>

\* close_position (alone, or as the first half of reverse_position): the
\* reduce-only order is answered.  A rejected close ends a reverse.
OMClose(s, outcome) ==
    /\ ~Busy
    /\ task[s].pc = "order"
    /\ \/ task[s].op = "close_position"
       \/ IsReverse(task[s].op) /\ task[s].phase = "close"
    /\ LET t    == task[s]
           side == CloseSide(t.pos_state)
           ok   == outcome # "rejected"
       IN  /\ outcome \in (IF t.qty_to_close <= 0 THEN {"rejected"}
                           ELSE OrderOutcomes(exch[s], side, t.qty_to_close,
                                              TRUE))
           /\ exch' = [exch EXCEPT ![s] =
                         IF outcome = "filled"
                         THEN ExchFill(@, side, t.qty_to_close, TRUE, t.price)
                         ELSE @]
           /\ exchChanged' = [exchChanged EXCEPT ![s] = @ \/ outcome = "filled"]
           /\ IF t.op = "close_position" \/ ~ok
              THEN SMResume(s, ok)
              ELSE /\ task' = [task EXCEPT ![s].phase = "open"]
                   /\ UNCHANGED positions
    /\ UNCHANGED <<trading_enabled, is_running, last_candle_times,
                   instruments_cache, loop, fc, market, hist, allOk>>

\* open_long / open_short (alone, or as the second half of
\* reverse_position): size the order (instrument info from the cache or the
\* gateway), place it, and return whether an order id came back.
OMOpen(s, info_ok, outcome) ==
    /\ ~Busy
    /\ task[s].pc = "order"
    /\ \/ task[s].op \in {"open_long", "open_short"}
       \/ IsReverse(task[s].op) /\ task[s].phase = "open"
    /\ LET t    == task[s]
           have == instruments_cache[s] \/ info_ok
           qty  == calculate_order_qty(InstrumentInfo, POSITION_SIZE_USDT,
                                       t.price)
           side == OpenSide(t.op)
           ok   == have /\ outcome # "rejected"
       IN  /\ outcome \in (IF have
                           THEN OrderOutcomes(exch[s], side, qty, FALSE)
                           ELSE {"rejected"})
           /\ instruments_cache' = [instruments_cache EXCEPT ![s] = have]
           /\ exch' = [exch EXCEPT ![s] =
                         IF outcome = "filled"
                         THEN ExchFill(@, side, qty, FALSE, t.price)
                         ELSE @]
           /\ exchChanged' = [exchChanged EXCEPT ![s] = @ \/ outcome = "filled"]
           /\ SMResume(s, ok)
    /\ UNCHANGED <<trading_enabled, is_running, last_candle_times,
                   loop, fc, market, hist, allOk>>

\* Lines 241-247: the reconciliation after a trade signal.
PSPostSync(s, resp) ==
    /\ ~Busy
    /\ task[s].pc = "postsync"
    /\ positions' = [positions EXCEPT ![s] =
          update_position_from_exchange(@, get_positions(resp))]
    /\ task' = [task EXCEPT ![s] = IdleTask]
    /\ UNCHANGED <<trading_enabled, is_running, last_candle_times,
                   instruments_cache, loop, fc, exch, market, exchChanged,
                   hist, allOk>>

\* ------------------------------------------------ trading_loop, start, stop
\* start(): at most one loop is modelled, so start() runs only once the
\* previous loop has exited.
Start ==
    /\ ~Busy
    /\ ~is_running
    /\ loop = "none"
    /\ is_running' = TRUE
    /\ loop' = "sleep"
    /\ UNCHANGED <<trading_enabled, positions, last_candle_times,
                   instruments_cache, task, fc, exch, market, exchChanged,
                   hist, allOk>>

Stop ==
    /\ ~Busy
    /\ is_running
    /\ is_running' = FALSE
    /\ UNCHANGED <<trading_enabled, positions, last_candle_times,
                   instruments_cache, loop, task, fc, exch, market,
                   exchChanged, hist, allOk>>

\* A variant of LoopWake whose loop condition ignores is_running.
LoopWakeIgnoresFlag ==
    /\ ~Busy
    /\ loop = "sleep"
    /\ loop' = "gather"
    /\ task' = [s \in DOMAIN task |-> [IdleTask EXCEPT !.pc = "fetch"]]
    /\ UNCHANGED <<trading_enabled, positions, is_running, last_candle_times,
                   instruments_cache, fc, exch, market, exchChanged,
                   hist, allOk>>

\* The loop's condition, at its start and after each sleep: a new cycle
\* spawns one process_symbol task per symbol; a cleared flag ends the loop.
LoopWake ==
    /\ ~Busy
    /\ loop = "sleep"
    /\ IF is_running
       THEN /\ loop' = "gather"
            /\ task' = [s \in DOMAIN task |->
                          [IdleTask EXCEPT !.pc = "fetch"]]
       ELSE /\ loop' = "none"
            /\ UNCHANGED task
    /\ UNCHANGED <<trading_enabled, positions, is_running, last_candle_times,
                   instruments_cache, fc, exch, market, exchChanged,
                   hist, allOk>>

\* A variant of LoopJoin that goes on as soon as one task has returned.
LoopJoinFirstReturned ==
    /\ ~Busy
    /\ loop = "gather"
    /\ \E s \in DOMAIN task : task[s].pc \in Returned
    /\ loop' = "sleep"
    /\ task' = [s \in DOMAIN task |->
                  IF task[s].pc \in Returned THEN IdleTask ELSE task[s]]
    /\ UNCHANGED <<trading_enabled, positions, is_running, last_candle_times,
                   instruments_cache, fc, exch, market, exchChanged,
                   hist, allOk>>

\* asyncio.gather returns: every task of the cycle is done.
LoopJoin ==
    /\ ~Busy
    /\ loop = "gather"
    /\ \A s \in DOMAIN task : task[s].pc \in Returned
    /\ loop' = "sleep"
    /\ task' = [s \in DOMAIN task |-> IdleTask]
    /\ UNCHANGED <<trading_enabled, positions, is_running, last_candle_times,
                   instruments_cache, fc, exch, market, exchChanged,
                   hist, allOk>>

\* ----------------------------------------------------------------- routes
\* A variant of StopTrading that also clears the bot's running flag.
StopTradingStopsBot ==
    /\ ~Busy
    /\ trading_enabled
    /\ trading_enabled' = FALSE
    /\ is_running' = FALSE
    /\ UNCHANGED <<positions, last_candle_times, instruments_cache, loop,
                   task, fc, exch, market, exchChanged, hist, allOk>>

\* start_trading: sets the flag and starts the bot when it is not running
\* (a call that finds the flag set and the bot running changes nothing).
StartTrading ==
    /\ ~Busy
    /\ ~trading_enabled \/ ~is_running
    /\ is_running \/ loop = "none"
    /\ trading_enabled' = TRUE
    /\ is_running' = TRUE
    /\ loop' = IF is_running THEN loop ELSE "sleep"
    /\ UNCHANGED <<positions, last_candle_times, instruments_cache, task, fc,
                   exch, market, exchChanged, hist, allOk>>

\* stop_trading: clears the flag (a call that finds it cleared changes
\* nothing).
StopTrading ==
    /\ ~Busy
    /\ trading_enabled
    /\ trading_enabled' = FALSE
    /\ UNCHANGED <<positions, is_running, last_candle_times,
                   instruments_cache, loop, task, fc, exch, market,
                   exchChanged, hist, allOk>>

\* --------------------------------------------------------- force_close_all
\* The force_close_all route's reply to its caller (routes.py, lines
\* 106-108); force_close_all itself returns nothing, its counts go to the
\* log (line 347).
ForceCloseReply ==
    [status |-> "success", message |-> "All positions closed"]

\* The for loop moves on from symbol f.i: to the next symbol's
\* reconciliation, or past the last symbol to the return and the route's
\* reply, after which the handler is gone.
FCAdvance(f) ==
    IF f.i < Len(SymbolList)
    THEN [f EXCEPT !.pc = "sync", !.i = f.i + 1, !.qty = 0, !.side = "FLAT"]
    ELSE IdleFc

FCBegin ==
    /\ ~Busy
    /\ fc.pc = "idle"
    /\ fc' = FCAdvance(IdleFc)
    /\ UNCHANGED <<trading_enabled, positions, is_running, last_candle_times,
                   instruments_cache, loop, task, exch, market, exchChanged,
                   hist, allOk>>

\* Lines 321-330: resync the symbol, then close it if it holds a position.
FCSync(resp) ==
    /\ ~Busy
    /\ fc.pc = "sync"
    /\ LET s  == SymbolList[fc.i]
           st == update_position_from_exchange(positions[s],
                                               get_positions(resp))
       IN  /\ resp \in PositionResponses(exch[s])
           /\ positions' = [positions EXCEPT ![s] = st]
           /\ fc' = IF st.pos_state # "FLAT" /\ st.qty > 0
                    THEN [fc EXCEPT !.pc = "close", !.qty = st.qty,
                                    !.side = st.pos_state]
                    ELSE FCAdvance(fc)
    /\ UNCHANGED <<trading_enabled, is_running, last_candle_times,
                   instruments_cache, loop, task, exch, market, exchChanged,
                   hist, allOk>>

\* Lines 332-341: the close order is answered.
FCClose(outcome) ==
    /\ ~Busy
    /\ fc.pc = "close"
    /\ LET s    == SymbolList[fc.i]
           side == CloseSide(fc.side)
       IN  /\ outcome \in OrderOutcomes(exch[s], side, fc.qty, TRUE)
           /\ exch' = [exch EXCEPT ![s] =
                         IF outcome = "filled"
                         THEN ExchFill(@, side, fc.qty, TRUE, 0)
                         ELSE @]
           /\ exchChanged' = [exchChanged EXCEPT ![s] = @ \/ outcome = "filled"]
           /\ positions' = [positions EXCEPT ![s] =
                              IF outcome # "rejected" THEN SyncFlat(@) ELSE @]
    /\ fc' = FCAdvance(IF outcome # "rejected"
                       THEN [fc EXCEPT !.closed_count = @ + 1]
                       ELSE [fc EXCEPT !.failed_count = @ + 1])
    /\ UNCHANGED <<trading_enabled, is_running, last_candle_times,
                   instruments_cache, loop, task, market, hist, allOk>>

\* ------------------------------------------------------------ environment
\* The next candle closes.
NewCandle(s) ==
    /\ ~Busy
    /\ market[s] < MaxCandles
    /\ market' = [market EXCEPT ![s] = @ + 1]
    /\ UNCHANGED <<trading_enabled, positions, is_running, last_candle_times,
                   instruments_cache, loop, task, fc, exch, exchChanged,
                   hist, allOk>>

\* The position is closed on the exchange without the bot (liquidation, a
\* manual close).
ExchangeCloses(s) ==
    /\ ~Busy
    /\ exch[s].size > 0
    /\ exch' = [exch EXCEPT ![s] = NoPosition]
    /\ exchChanged' = [exchChanged EXCEPT ![s] = TRUE]
    /\ UNCHANGED <<trading_enabled, positions, is_running, last_candle_times,
                   instruments_cache, loop, task, fc, market, hist, allOk>>

OrderAnswers == {"rejected", "unfilled", "filled"}

Next ==
    \/ \E s \in Symbols, n \in KlineCounts : PSFetchShort(s, n)
    \/ \E s \in Symbols : PSFetchSame(s)
    \/ \E s \in Symbols, close \in Prices, upper \in CloudLevels,
          lower \in CloudLevels, ticker \in TickerAnswers :
            PSFetchNew(s, close, upper, lower, ticker)
    \/ \E s \in Symbols : \E resp \in PositionResponses(exch[s]) :
            PSPreSync(s, resp)
    \/ \E s \in Symbols : SMCall(s)
    \/ \E s \in Symbols, outcome \in OrderAnswers : OMClose(s, outcome)
    \/ \E s \in Symbols, info_ok \in BOOLEAN, outcome \in OrderAnswers :
            OMOpen(s, info_ok, outcome)
    \/ \E s \in Symbols : \E resp \in PositionResponses(exch[s]) :
            PSPostSync(s, resp)
    \/ Start
    \/ Stop
    \/ LoopWake
    \/ LoopJoin
    \/ StartTrading
    \/ StopTrading
    \/ FCBegin
    \/ \E s \in Symbols : \E resp \in PositionResponses(exch[s]) : FCSync(resp)
    \/ \E outcome \in OrderAnswers : FCClose(outcome)
    \/ \E s \in Symbols : NewCandle(s)
    \/ \E s \in Symbols : ExchangeCloses(s)

Spec == Init /\ [][Next]_vars

\* -------------------------------- process_signal alone, fed observations
\* One whole process_signal call on the first symbol's state, with an order
\* manager that answers `ok`.
SMFeed(current_zone, price, enabled, ok) ==
    /\ Len(hist) < MaxSteps
    /\ LET s      == SymbolList[1]
           st     == positions[s]
           r      == SMCallResult(st, current_zone, price, enabled)
           final  == IF r.op = "none" THEN r.state
                     ELSE SMCommit(st, r.op, current_zone, price, ok, r.signal)
           signal == IF r.op = "none" THEN r.signal
                     ELSE SMReturnSignal(ok, r.signal)
       IN  /\ positions' = [positions EXCEPT ![s] = final]
           /\ hist' = Append(hist, [zone |-> current_zone, signal |-> signal,
                                    op |-> r.op,
                                    success |-> IF r.op = "none" THEN r.success
                                                ELSE ok,
                                    pos_state |-> final.pos_state])
           /\ allOk' = (allOk /\ enabled /\ (r.op = "none" \/ ok))
    /\ UNCHANGED <<trading_enabled, is_running, last_candle_times,
                   instruments_cache, loop, task, fc, exch, market,
                   exchChanged>>

NextSM ==
    \E current_zone \in Zones, price \in Prices, enabled \in BOOLEAN,
       ok \in BOOLEAN : SMFeed(current_zone, price, enabled, ok)

SpecSM == Init /\ [][NextSM]_vars

\* ------------------------- trading_loop over several symbols, tasks abstract
\* The loop, start and stop as above, with one task per symbol of
\* LoopSymbols; of process_symbol only the awaits it passes and the
\* exceptions it catches are kept.
LoopSymbols == {"BTCUSDT", "ETHUSDT", "BNBUSDT"}

\* Where the task can be once the await it is at has returned: after the
\* klines, a return (too few, same candle) or the ticker and the
\* reconciliation; after those, process_signal returns at once or awaits the
\* order manager; then the second reconciliation or the end.
AfterAwait(pc) ==
    CASE pc = "fetch"    -> {"short", "same", "sync"}
      [] pc = "sync"     -> {"order", "postsync", "done"}
      [] pc = "order"    -> {"postsync"}
      [] pc = "postsync" -> {"done"}
      [] OTHER           -> {}

InitLoop ==
    /\ trading_enabled = FALSE
    /\ positions = [s \in LoopSymbols |-> PositionState]
    /\ is_running = FALSE
    /\ last_candle_times = [s \in LoopSymbols |-> 0]
    /\ instruments_cache = [s \in LoopSymbols |-> FALSE]
    /\ loop = "none"
    /\ task = [s \in LoopSymbols |-> IdleTask]
    /\ fc = IdleFc
    /\ exch = [s \in LoopSymbols |-> NoPosition]
    /\ market = [s \in LoopSymbols |-> 1]
    /\ exchChanged = [s \in LoopSymbols |-> FALSE]
    /\ hist = <<>>
    /\ allOk = TRUE

\* The await the task is at returns and the task runs to its next await or
\* to its return.
PSAwait(s, next) ==
    /\ task[s].pc \in InFlight
    /\ next \in AfterAwait(task[s].pc)
    /\ task' = [task EXCEPT ![s].pc = next]
    /\ UNCHANGED <<trading_enabled, positions, is_running, last_candle_times,
                   instruments_cache, loop, fc, exch, market, exchChanged,
                   hist, allOk>>

\* A variant of PSRaise in which the exception escapes the task and ends
\* the loop.
PSRaiseEndsLoop(s) ==
    /\ task[s].pc \in InFlight
    /\ task' = [task EXCEPT ![s].pc = "failed"]
    /\ loop' = "none"
    /\ UNCHANGED <<trading_enabled, positions, is_running, last_candle_times,
                   instruments_cache, fc, exch, market, exchChanged,
                   hist, allOk>>

\* Lines 252-253: an exception raised in the task is caught and logged by
\* process_symbol, which returns.
PSRaise(s) ==
    /\ task[s].pc \in InFlight
    /\ task' = [task EXCEPT ![s].pc = "failed"]
    /\ UNCHANGED <<trading_enabled, positions, is_running, last_candle_times,
                   instruments_cache, loop, fc, exch, market, exchChanged,
                   hist, allOk>>

NextLoop ==
    \/ Start
    \/ Stop
    \/ LoopWake
    \/ LoopJoin
    \/ \E s \in LoopSymbols, next \in Returned \cup InFlight : PSAwait(s, next)
    \/ \E s \in LoopSymbols : PSRaise(s)

SpecLoop == InitLoop /\ [][NextLoop]_vars

\* The sleep of the loop ends, gather returns once its tasks have, and every
\* await of a task returns (the gateway bounds each request by a timeout).
LoopFairness ==
    /\ WF_vars(LoopWake)
    /\ WF_vars(LoopJoin)
    /\ \A s \in LoopSymbols :
          WF_vars(\E next \in Returned \cup InFlight : PSAwait(s, next))

SpecLoopFair == SpecLoop /\ LoopFairness

\* ------------------------------- process_signal as a function of its inputs
\* The PositionState values process_signal can be handed: FLAT with nothing
\* held, or a position with a size and an entry price (written by a fill or
\* by a reconciliation); prev_zone NONE only before any signal was recorded.
SignalInputs ==
    {[PositionState EXCEPT !.pos_state = side, !.qty = qty,
                           !.entry_price = entry, !.unrealized_pnl = pnl,
                           !.prev_zone = prev, !.current_zone = prev,
                           !.last_signal = last] :
        side \in {"FLAT", "LONG", "SHORT"}, qty \in 0..MaxSize,
        entry \in Prices \cup {0}, pnl \in PnlValues \cup {0},
        prev \in Zones \cup {"NONE"}, last \in {"N/A", "Holding"}}

InitFn ==
    /\ trading_enabled = FALSE
    /\ positions \in [Symbols ->
          {st \in SignalInputs :
              /\ (st.pos_state = "FLAT")
                    <=> (st.qty = 0 /\ st.entry_price = 0)
              /\ st.pos_state = "FLAT" => st.unrealized_pnl = 0
              /\ st.pos_state # "FLAT" => (st.qty > 0 /\ st.entry_price > 0)
              /\ st.prev_zone = "NONE" => st.last_signal = "N/A"}]
    /\ is_running = FALSE
    /\ last_candle_times = [s \in Symbols |-> 0]
    /\ instruments_cache = [s \in Symbols |-> FALSE]
    /\ loop = "none"
    /\ task = [s \in Symbols |-> IdleTask]
    /\ fc = IdleFc
    /\ exch = [s \in Symbols |-> NoPosition]
    /\ market = [s \in Symbols |-> 1]
    /\ exchChanged = [s \in Symbols |-> FALSE]
    /\ hist = <<>>
    /\ allOk = TRUE

\* One process_signal call on the state drawn.
SMOnce(current_zone, price, enabled, ok) ==
    /\ hist = <<>>
    /\ SMFeed(current_zone, price, enabled, ok)

NextFn ==
    \E current_zone \in Zones, price \in Prices, enabled \in BOOLEAN,
       ok \in BOOLEAN : SMOnce(current_zone, price, enabled, ok)

SpecFn == InitFn /\ [][NextFn]_vars


\* ----------------------------------- the order manager, called on its own
\* Calls of get_instrument_info, close_position, open_long and open_short
\* with every argument and every gateway answer; hist logs each call with
\* the gateway requests it made.
MaxCalls == 2
OMSymbols == {"BTCUSDT", "ETHUSDT"}
CloseQtys == {-1, 0, 1, 2}

\* BybitClient.get_instruments_info as the order manager requests it.
GatewayFetch ==
    [fn |-> "get_instruments_info", side |-> "", qty |-> 0,
     reduce_only |-> FALSE]

\* BybitClient.place_market_order as the order manager requests it.
GatewayOrder(side, qty, reduce_only) ==
    [fn |-> "place_market_order", side |-> side, qty |-> qty,
     reduce_only |-> reduce_only]

\* A variant of get_instrument_info that asks the gateway on every call.
GetInstrumentInfoUncached(cached, info_ok) ==
    [info |-> info_ok, cache |-> cached \/ info_ok,
     gateway |-> <<GatewayFetch>>]

\* get_instrument_info: `cached` is whether the symbol is in
\* instruments_cache, `info_ok` whether the gateway returns a record when
\* asked.  info: a record is returned (not {}); cache: the symbol is in
\* the cache afterwards.
get_instrument_info(cached, info_ok) ==
    IF ~cached
    THEN [info |-> info_ok, cache |-> info_ok, gateway |-> <<GatewayFetch>>]
    ELSE [info |-> TRUE, cache |-> TRUE, gateway |-> <<>>]

\* A variant of close_position without the guard on current_qty.
ClosePositionUnguarded(current_qty, side, accepted) ==
    [result |-> accepted,
     gateway |-> <<GatewayOrder(CloseSide(side), current_qty, TRUE)>>]

\* close_position: `accepted` is whether the gateway returns an order id.
close_position(current_qty, side, accepted) ==
    IF current_qty <= 0
    THEN [result |-> FALSE, gateway |-> <<>>]
    ELSE [result |-> accepted,
          gateway |-> <<GatewayOrder(CloseSide(side), current_qty, TRUE)>>]

\* A variant of OpenOrder that places the order with the minimum quantity
\* when no instrument record is at hand.
OpenOrderWithoutInfo(op, cached, info_ok, price, accepted) ==
    LET g   == get_instrument_info(cached, info_ok)
        qty == IF g.info
               THEN calculate_order_qty(InstrumentInfo, POSITION_SIZE_USDT,
                                        price)
               ELSE InstrumentInfo.minOrderQty
    IN  [result |-> accepted, sized |-> <<qty>>, cache |-> g.cache,
         gateway |-> g.gateway \o <<GatewayOrder(OpenSide(op), qty, FALSE)>>]

\* open_long / open_short: calculate_order_qty (None, written <<>>, when
\* get_instrument_info returns {}), then the market order.
OpenOrder(op, cached, info_ok, price, accepted) ==
    LET g == get_instrument_info(cached, info_ok)
    IN  IF ~g.info
        THEN [result |-> FALSE, sized |-> <<>>, cache |-> g.cache,
              gateway |-> g.gateway]
        ELSE LET qty == calculate_order_qty(InstrumentInfo,
                                            POSITION_SIZE_USDT, price)
             IN  [result |-> accepted, sized |-> <<qty>>, cache |-> g.cache,
                  gateway |-> g.gateway
                              \o <<GatewayOrder(OpenSide(op), qty, FALSE)>>]

InitOM ==
    /\ trading_enabled = FALSE
    /\ positions = [s \in OMSymbols |-> PositionState]
    /\ is_running = FALSE
    /\ last_candle_times = [s \in OMSymbols |-> 0]
    /\ instruments_cache = [s \in OMSymbols |-> FALSE]
    /\ loop = "none"
    /\ task = [s \in OMSymbols |-> IdleTask]
    /\ fc = IdleFc
    /\ exch = [s \in OMSymbols |-> NoPosition]
    /\ market = [s \in OMSymbols |-> 1]
    /\ exchChanged = [s \in OMSymbols |-> FALSE]
    /\ hist = <<>>
    /\ allOk = TRUE

\* What hist keeps of a call.
OMLogged(call, s, qty, side, cached, info_ok, accepted, r, sized) ==
    [call |-> call, symbol |-> s, qty |-> qty, side |-> side,
     cached |-> cached, info_ok |-> info_ok, accepted |-> accepted,
     result |-> r.result, sized |-> sized, gateway |-> r.gateway]

\* A call of get_instrument_info(s).
OMCallInfo(s, info_ok) ==
    /\ Len(hist) < MaxCalls
    /\ LET g == get_instrument_info(instruments_cache[s], info_ok)
       IN  /\ instruments_cache' = [instruments_cache EXCEPT ![s] = g.cache]
           /\ hist' = Append(hist,
                  OMLogged("get_instrument_info", s, 0, "",
                           instruments_cache[s], info_ok, FALSE,
                           [result |-> g.info, gateway |-> g.gateway], <<>>))
    /\ UNCHANGED <<trading_enabled, positions, is_running, last_candle_times,
                   loop, task, fc, exch, market, exchChanged, allOk>>

\* A call of close_position(s, current_qty, side).
OMCallClose(s, current_qty, side, accepted) ==
    /\ Len(hist) < MaxCalls
    /\ hist' = Append(hist,
           OMLogged("close_position", s, current_qty, side,
                    instruments_cache[s], FALSE, accepted,
                    close_position(current_qty, side, accepted), <<>>))
    /\ UNCHANGED <<trading_enabled, positions, is_running, last_candle_times,
                   instruments_cache, loop, task, fc, exch, market,
                   exchChanged, allOk>>

\* A call of open_long(s, price) or open_short(s, price).
OMCallOpen(s, op, price, info_ok, accepted) ==
    /\ Len(hist) < MaxCalls
    /\ LET r == OpenOrder(op, instruments_cache[s], info_ok, price, accepted)
       IN  /\ instruments_cache' = [instruments_cache EXCEPT ![s] = r.cache]
           /\ hist' = Append(hist,
                  OMLogged(op, s, 0, "", instruments_cache[s], info_ok,
                           accepted, r, r.sized))
    /\ UNCHANGED <<trading_enabled, positions, is_running, last_candle_times,
                   loop, task, fc, exch, market, exchChanged, allOk>>

NextOM ==
    \/ \E s \in OMSymbols, info_ok \in BOOLEAN : OMCallInfo(s, info_ok)
    \/ \E s \in OMSymbols, current_qty \in CloseQtys,
          side \in {"LONG", "SHORT"}, accepted \in BOOLEAN :
            OMCallClose(s, current_qty, side, accepted)
    \/ \E s \in OMSymbols, op \in {"open_long", "open_short"},
          price \in Prices, info_ok \in BOOLEAN, accepted \in BOOLEAN :
            OMCallOpen(s, op, price, info_ok, accepted)

SpecOM == InitOM /\ [][NextOM]_vars


\* ------------------------------ calculate_order_qty as a function of inputs
\* The instrument records (lotSizeFilter) the exchange may hold, with
\* minOrderQty <= maxOrderQty, and the notionals and prices the order is
\* sized for.
InstrumentSpecs ==
    {[qtyStep |-> step, minOrderQty |-> min_qty, maxOrderQty |-> max_qty,
      minNotionalValue |-> min_notional] :
        step \in {1, 2}, min_qty \in {1, 3}, max_qty \in {3, 1000},
        min_notional \in {5, 200}}
Notionals == {30, 100}
SizingPrices == {5, 10, 30, 50, 100}

\* The cache holds the symbol's instrument record.
InitQty ==
    /\ trading_enabled = FALSE
    /\ positions = [s \in Symbols |-> PositionState]
    /\ is_running = FALSE
    /\ last_candle_times = [s \in Symbols |-> 0]
    /\ instruments_cache \in [Symbols -> InstrumentSpecs]
    /\ loop = "none"
    /\ task = [s \in Symbols |-> IdleTask]
    /\ fc = IdleFc
    /\ exch = [s \in Symbols |-> NoPosition]
    /\ market = [s \in Symbols |-> 1]
    /\ exchChanged = [s \in Symbols |-> FALSE]
    /\ hist = <<>>
    /\ allOk = TRUE

\* One call of calculate_order_qty(s, notional_usdt, current_price).
QtyCall(s, notional_usdt, current_price) ==
    /\ hist = <<>>
    /\ hist' = <<[info |-> instruments_cache[s],
                  notional_usdt |-> notional_usdt,
                  current_price |-> current_price,
                  qty |-> calculate_order_qty(instruments_cache[s],
                                              notional_usdt, current_price)]>>
    /\ UNCHANGED <<trading_enabled, positions, is_running, last_candle_times,
                   instruments_cache, loop, task, fc, exch, market,
                   exchChanged, allOk>>

NextQty ==
    \E s \in Symbols, notional_usdt \in Notionals,
       current_price \in SizingPrices :
          QtyCall(s, notional_usdt, current_price)

SpecQty == InitQty /\ [][NextQty]_vars


\* --------------------------------- start(), initialize() and update_config
\* The bot is started and stopped (main.py's lifespan) and reconfigured
\* while its loop runs.  hist logs each step of start() and each
\* update_config call; the last entry holds the position of start(), the
\* settings and TradingState.connection_ok.
LEVERAGE == 20
CtlSymbolList == <<"BTCUSDT", "ETHUSDT">>
DefaultSettings ==
    [POSITION_SIZE_USDT |-> POSITION_SIZE_USDT, LEVERAGE |-> LEVERAGE]

\* Valid request bodies of update_config.
ConfigData ==
    {[position_size |-> 200], [leverage |-> 10],
     [position_size |-> 200, leverage |-> 10]}

\* update_config, lines 117-131: the fields present overwrite the settings.
ApplyConfig(settings, data) ==
    [POSITION_SIZE_USDT |-> IF "position_size" \in DOMAIN data
                            THEN data.position_size
                            ELSE settings.POSITION_SIZE_USDT,
     LEVERAGE |-> IF "leverage" \in DOMAIN data THEN data.leverage
                  ELSE settings.LEVERAGE]

\* Before anything ran: settings from config.py, connection_ok False
\* (models.py), no start() in flight.
CtlInitial ==
    [op |-> "", answer |-> "", pc |-> "idle", i |-> 0, init_errors |-> 0,
     connection_ok |-> FALSE, settings |-> DefaultSettings, status |-> ""]

CtlNow == IF hist = <<>> THEN CtlInitial ELSE hist[Len(hist)]

InitCtl ==
    /\ trading_enabled = FALSE
    /\ positions = [s \in Symbols |-> PositionState]
    /\ is_running = FALSE
    /\ last_candle_times = [s \in Symbols |-> 0]
    /\ instruments_cache = [s \in Symbols |-> FALSE]
    /\ loop = "none"
    /\ task = [s \in Symbols |-> IdleTask]
    /\ fc = IdleFc
    /\ exch = [s \in Symbols |-> NoPosition]
    /\ market = [s \in Symbols |-> 1]
    /\ exchChanged = [s \in Symbols |-> FALSE]
    /\ hist = <<>>
    /\ allOk = TRUE

\* start(), lines 294-301: a running bot makes it return at once; otherwise
\* is_running is set and initialize() reaches its first set_leverage.
CtlStart ==
    /\ Len(hist) < MaxSteps
    /\ IF is_running
       THEN /\ hist' = Append(hist, [CtlNow EXCEPT !.op = "start",
                                                   !.answer = "",
                                                   !.status = "already running"])
            /\ UNCHANGED is_running
       ELSE /\ CtlNow.pc = "idle"
            /\ loop = "none"
            /\ is_running' = TRUE
            /\ hist' = Append(hist, [CtlNow EXCEPT !.op = "start",
                                                   !.answer = "",
                                                   !.pc = "leverage", !.i = 1,
                                                   !.init_errors = 0,
                                                   !.status = "initializing"])
    /\ UNCHANGED <<trading_enabled, positions, last_candle_times,
                   instruments_cache, loop, task, fc, exch, market,
                   exchChanged, allOk>>

\* initialize(), lines 32-46: set_leverage for symbol i is answered (true,
\* false, or an exception, which is caught); on to the next symbol or to
\* the connection test.
CtlSetLeverage(answer) ==
    /\ Len(hist) < MaxSteps
    /\ CtlNow.pc = "leverage"
    /\ hist' = Append(hist,
          [CtlNow EXCEPT !.op = "set_leverage", !.answer = answer,
                         !.init_errors = IF answer = "ok" THEN @ ELSE @ + 1,
                         !.pc = IF CtlNow.i < Len(CtlSymbolList)
                                THEN "leverage" ELSE "ticker",
                         !.i = IF CtlNow.i < Len(CtlSymbolList)
                               THEN @ + 1 ELSE 0])
    /\ UNCHANGED <<trading_enabled, positions, is_running, last_candle_times,
                   instruments_cache, loop, task, fc, exch, market,
                   exchChanged, allOk>>

\* A variant of CtlTicker that takes the connection for good only when
\* every symbol's leverage was set.
CtlTickerNeedsLeverage(answer) ==
    /\ Len(hist) < MaxSteps
    /\ CtlNow.pc = "ticker"
    /\ hist' = Append(hist,
          [CtlNow EXCEPT !.op = "get_ticker", !.answer = answer,
                         !.connection_ok =
                             (answer = "data" /\ CtlNow.init_errors = 0),
                         !.pc = "idle", !.status = "started"])
    /\ loop' = "sleep"
    /\ UNCHANGED <<trading_enabled, positions, is_running, last_candle_times,
                   instruments_cache, task, fc, exch, market, exchChanged,
                   allOk>>

\* initialize(), lines 51-61, and start(), lines 303-304: the ticker of the
\* first symbol is answered (data, nothing, or an exception, which is
\* caught), connection_ok is written and the trading loop task is created.
CtlTicker(answer) ==
    /\ Len(hist) < MaxSteps
    /\ CtlNow.pc = "ticker"
    /\ hist' = Append(hist,
          [CtlNow EXCEPT !.op = "get_ticker", !.answer = answer,
                         !.connection_ok = (answer = "data"),
                         !.pc = "idle", !.status = "started"])
    /\ loop' = "sleep"
    /\ UNCHANGED <<trading_enabled, positions, is_running, last_candle_times,
                   instruments_cache, task, fc, exch, market, exchChanged,
                   allOk>>

\* update_config: the fields are written to the settings (lines 117-131);
\* then bot_controller.restart() (line 134) raises AttributeError, since
\* BotController defines no restart, and the except clause (lines 140-144)
\* answers with status "error".  Nothing is awaited on the way.
UpdateConfig(data) ==
    /\ Len(hist) < MaxSteps
    /\ hist' = Append(hist,
          [CtlNow EXCEPT !.op = "update_config", !.answer = "",
                         !.settings = ApplyConfig(@, data),
                         !.status = "error"])
    /\ UNCHANGED <<trading_enabled, positions, is_running, last_candle_times,
                   instruments_cache, loop, task, fc, exch, market,
                   exchChanged, allOk>>

NextCtl ==
    \/ CtlStart
    \/ \E answer \in {"ok", "refused", "raises"} : CtlSetLeverage(answer)
    \/ \E answer \in {"data", "empty", "raises"} : CtlTicker(answer)
    \/ Stop
    \/ LoopWake
    \/ LoopJoin
    \/ \E s \in Symbols, next \in Returned : PSAwait(s, next)
    \/ \E data \in ConfigData : UpdateConfig(data)

SpecCtl == InitCtl /\ [][NextCtl]_vars



\* ------------------------------- calculate_supertrend over drawn basic bands
\* The bands are computed from the closes and the basic bands
\* (hl2 +- multiplier * atr, lines 22-37), which are drawn here: one record
\* per candle, isna telling that the candle's basic bands are NaN.  hist
\* holds the candles with the arrays the function fills; indices run from 1
\* where the code's run from 0.
MaxBars == 3
BarCloses == {0, 2, 4}
BasicBands ==
    {[isna |-> FALSE, basic_upper |-> 2, basic_lower |-> 1],
     [isna |-> FALSE, basic_upper |-> 3, basic_lower |-> 1],
     [isna |-> FALSE, basic_upper |-> 3, basic_lower |-> 2],
     [isna |-> FALSE, basic_upper |-> 4, basic_lower |-> 0],
     [isna |-> TRUE, basic_upper |-> 0, basic_lower |-> 0]}

\* Lines 39-43: the arrays start as zeros.  filled tells that the function
\* has written the index, band_nan that what it wrote is NaN.
Bars ==
    {[close |-> c, isna |-> b.isna, basic_upper |-> b.basic_upper,
      basic_lower |-> b.basic_lower, filled |-> FALSE, band_nan |-> FALSE,
      upper_band |-> 0, lower_band |-> 0, direction |-> 0,
      supertrend |-> 0] : c \in BarCloses, b \in BasicBands}

InitST ==
    /\ trading_enabled = FALSE
    /\ positions = [s \in Symbols |-> PositionState]
    /\ is_running = FALSE
    /\ last_candle_times = [s \in Symbols |-> 0]
    /\ instruments_cache = [s \in Symbols |-> FALSE]
    /\ loop = "none"
    /\ task = [s \in Symbols |-> IdleTask]
    /\ fc = IdleFc
    /\ exch = [s \in Symbols |-> NoPosition]
    /\ market = [s \in Symbols |-> 1]
    /\ exchChanged = [s \in Symbols |-> FALSE]
    /\ hist \in [1..MaxBars -> Bars]
    /\ allOk = TRUE

\* Lines 45-50: the first index whose basic bands are not NaN, the first
\* index when there is none.
first_valid_idx ==
    IF \E i \in 1..Len(hist) : ~hist[i].isna
    THEN CHOOSE i \in 1..Len(hist) :
            /\ ~hist[i].isna
            /\ \A j \in 1..(i - 1) : hist[j].isna
    ELSE 1

\* Lines 52-62: the first valid index takes its basic bands, direction 1
\* and the lower band as supertrend; the earlier indices copy it.
STFirst ==
    /\ \A i \in 1..Len(hist) : ~hist[i].filled
    /\ LET f == hist[first_valid_idx]
       IN  hist' = [i \in 1..Len(hist) |->
                      IF i <= first_valid_idx
                      THEN [hist[i] EXCEPT !.filled = TRUE,
                                           !.band_nan = f.isna,
                                           !.upper_band = f.basic_upper,
                                           !.lower_band = f.basic_lower,
                                           !.direction = 1,
                                           !.supertrend = f.basic_lower]
                      ELSE hist[i]]
    /\ UNCHANGED <<trading_enabled, positions, is_running, last_candle_times,
                   instruments_cache, loop, task, fc, exch, market,
                   exchChanged, allOk>>

\* A variant of the upper band's rule that takes the basic band whenever
\* it differs from the previous band.
UpperBandFollowsBasic(basic_upper, prev_upper, prev_close) ==
    basic_upper

\* Lines 73-77.
upper_band_next(basic_upper, prev_upper, prev_close) ==
    IF basic_upper < prev_upper \/ prev_close > prev_upper
    THEN basic_upper
    ELSE prev_upper

\* Lines 79-83.
lower_band_next(basic_lower, prev_lower, prev_close) ==
    IF basic_lower > prev_lower \/ prev_close < prev_lower
    THEN basic_lower
    ELSE prev_lower

\* Lines 85-95.
direction_next(prev_direction, close, prev_upper, prev_lower) ==
    IF prev_direction = -1
    THEN IF close > prev_upper THEN 1 ELSE -1
    ELSE IF close < prev_lower THEN -1 ELSE 1

\* Lines 64-98: one pass of the loop, for the index i after the filled
\* ones.  A NaN basic band carries the previous values on.
STLoop ==
    \E i \in 2..Len(hist) :
        /\ hist[i - 1].filled
        /\ ~hist[i].filled
        /\ LET p == hist[i - 1]
               b == hist[i]
               up == upper_band_next(b.basic_upper, p.upper_band, p.close)
               lo == lower_band_next(b.basic_lower, p.lower_band, p.close)
               dir == direction_next(p.direction, b.close, p.upper_band,
                                     p.lower_band)
           IN  hist' = [hist EXCEPT ![i] =
                          IF b.isna
                          THEN [b EXCEPT !.filled = TRUE,
                                         !.band_nan = p.band_nan,
                                         !.upper_band = p.upper_band,
                                         !.lower_band = p.lower_band,
                                         !.direction = p.direction,
                                         !.supertrend = p.supertrend]
                          ELSE [b EXCEPT !.filled = TRUE,
                                         !.upper_band = up,
                                         !.lower_band = lo,
                                         !.direction = dir,
                                         !.supertrend =
                                             IF dir = 1 THEN lo ELSE up]]
        /\ UNCHANGED <<trading_enabled, positions, is_running,
                       last_candle_times, instruments_cache, loop, task, fc,
                       exch, market, exchChanged, allOk>>

NextST ==
    \/ STFirst
    \/ STLoop

SpecST == InitST /\ [][NextST]_vars



\* ------------------------------------------- the cloud and get_zone as functions
\* The values a close, a supertrend line and a cloud boundary are drawn from.
ZoneLevels == 0..4

InitZone ==
    /\ trading_enabled = FALSE
    /\ positions = [s \in Symbols |-> PositionState]
    /\ is_running = FALSE
    /\ last_candle_times = [s \in Symbols |-> 0]
    /\ instruments_cache = [s \in Symbols |-> FALSE]
    /\ loop = "none"
    /\ task = [s \in Symbols |-> IdleTask]
    /\ fc = IdleFc
    /\ exch = [s \in Symbols |-> NoPosition]
    /\ market = [s \in Symbols |-> 1]
    /\ exchChanged = [s \in Symbols |-> FALSE]
    /\ hist = <<>>
    /\ allOk = TRUE

\* calculate_supertrend_cloud, lines 120-122: the cloud of two supertrend
\* values.
upper_cloud_of(st1, st2) == Max(st1, st2)
lower_cloud_of(st1, st2) == Min(st1, st2)

\* One call of get_zone(close, upper_cloud, lower_cloud) on any three
\* values.
ZoneCall(close, upper_cloud, lower_cloud) ==
    /\ hist = <<>>
    /\ hist' = <<[close |-> close, upper_cloud |-> upper_cloud,
                  lower_cloud |-> lower_cloud, from_cloud |-> FALSE,
                  zone |-> get_zone(close, upper_cloud, lower_cloud)]>>
    /\ UNCHANGED <<trading_enabled, positions, is_running, last_candle_times,
                   instruments_cache, loop, task, fc, exch, market,
                   exchChanged, allOk>>

\* get_zone on the cloud of two supertrend values, as process_symbol
\* calls it.
CloudZoneCall(close, st1, st2) ==
    /\ hist = <<>>
    /\ hist' = <<[close |-> close, upper_cloud |-> upper_cloud_of(st1, st2),
                  lower_cloud |-> lower_cloud_of(st1, st2),
                  from_cloud |-> TRUE,
                  zone |-> get_zone(close, upper_cloud_of(st1, st2),
                                    lower_cloud_of(st1, st2))]>>
    /\ UNCHANGED <<trading_enabled, positions, is_running, last_candle_times,
                   instruments_cache, loop, task, fc, exch, market,
                   exchChanged, allOk>>

NextZone ==
    \/ \E close \in ZoneLevels, upper_cloud \in ZoneLevels,
          lower_cloud \in ZoneLevels :
            ZoneCall(close, upper_cloud, lower_cloud)
    \/ \E close \in ZoneLevels, st1 \in ZoneLevels, st2 \in ZoneLevels :
            CloudZoneCall(close, st1, st2)

SpecZone == InitZone /\ [][NextZone]_vars



\* ------------------------------- start() and stop() called in any order
\* hist lists the coroutines created so far: each call of start() that got
\* past its is_running check, and each trading_loop task made by
\* asyncio.create_task.  Nothing waits for or cancels a trading_loop task:
\* it ends only by finding is_running false at its loop condition.
MaxTasks == 4

InitTasks ==
    /\ trading_enabled = FALSE
    /\ positions = [s \in Symbols |-> PositionState]
    /\ is_running = FALSE
    /\ last_candle_times = [s \in Symbols |-> 0]
    /\ instruments_cache = [s \in Symbols |-> FALSE]
    /\ loop = "none"
    /\ task = [s \in Symbols |-> IdleTask]
    /\ fc = IdleFc
    /\ exch = [s \in Symbols |-> NoPosition]
    /\ market = [s \in Symbols |-> 1]
    /\ exchChanged = [s \in Symbols |-> FALSE]
    /\ hist = <<>>
    /\ allOk = TRUE

TasksUnchanged ==
    UNCHANGED <<trading_enabled, positions, last_candle_times,
                instruments_cache, loop, task, fc, exch, market,
                exchChanged, allOk>>

\* The trading_loop tasks that were created and have not returned.
LiveLoops ==
    {k \in 1..Len(hist) : hist[k].coro = "trading_loop" /\ hist[k].pc # "done"}

\* start(), lines 296-301: returns at once when is_running; otherwise sets
\* it and awaits initialize().
TStartCall ==
    /\ Len(hist) < MaxTasks
    /\ IF is_running
       THEN UNCHANGED <<is_running, hist>>
       ELSE /\ is_running' = TRUE
            /\ hist' = Append(hist, [coro |-> "start", pc |-> "initialize"])
    /\ TasksUnchanged

\* start(), lines 301-304: initialize() has returned (it catches its own
\* errors), and the trading_loop task is created.
TStartCreate ==
    \E k \in 1..Len(hist) :
        /\ hist[k].coro = "start"
        /\ hist[k].pc = "initialize"
        /\ Len(hist) < MaxTasks
        /\ hist' = Append([hist EXCEPT ![k].pc = "done"],
                          [coro |-> "trading_loop", pc |-> "created"])
        /\ UNCHANGED is_running
        /\ TasksUnchanged

\* stop(), lines 306-309.
TStop ==
    /\ is_running' = FALSE
    /\ UNCHANGED hist
    /\ TasksUnchanged

\* trading_loop, line 262: the loop condition, read when the task first
\* runs and after each sleep; then the gather of the cycle.
TLoopCondition(k) ==
    /\ k \in 1..Len(hist)
    /\ hist[k].coro = "trading_loop"
    /\ hist[k].pc \in {"created", "sleep"}
    /\ hist' = [hist EXCEPT ![k].pc = IF is_running THEN "gather" ELSE "done"]
    /\ UNCHANGED is_running
    /\ TasksUnchanged

\* trading_loop, lines 270-283: the gather returns and the task sleeps.
TLoopGathered(k) ==
    /\ k \in 1..Len(hist)
    /\ hist[k].coro = "trading_loop"
    /\ hist[k].pc = "gather"
    /\ hist' = [hist EXCEPT ![k].pc = "sleep"]
    /\ UNCHANGED is_running
    /\ TasksUnchanged

NextTasks ==
    \/ TStartCall
    \/ TStartCreate
    \/ TStop
    \/ \E k \in 1..MaxTasks : TLoopCondition(k)
    \/ \E k \in 1..MaxTasks : TLoopGathered(k)

SpecTasks == InitTasks /\ [][NextTasks]_vars



\* ----------------- force_close_all beside one cycle of the loop, two symbols
\* Two configured symbols, each with its process_symbol task of the running
\* cycle, and one call of force_close_all.  Both symbols are FLAT with
\* prev_zone IN after an earlier cycle, and a new candle has closed on each.
FcSymbolList == <<"BTCUSDT", "ETHUSDT">>
FcSymbols == {FcSymbolList[i] : i \in 1..Len(FcSymbolList)}

InitFC ==
    /\ trading_enabled = TRUE
    /\ positions = [s \in FcSymbols |->
                      [PositionState EXCEPT !.prev_zone = "IN",
                                            !.current_zone = "IN",
                                            !.last_candle_time = 1]]
    /\ is_running = TRUE
    /\ last_candle_times = [s \in FcSymbols |-> 1]
    /\ instruments_cache = [s \in FcSymbols |-> FALSE]
    /\ loop = "gather"
    /\ task = [s \in FcSymbols |-> [IdleTask EXCEPT !.pc = "fetch"]]
    /\ fc = IdleFc
    /\ exch = [s \in FcSymbols |-> NoPosition]
    /\ market = [s \in FcSymbols |-> 2]
    /\ exchChanged = [s \in FcSymbols |-> FALSE]
    /\ hist = <<>>
    /\ allOk = TRUE

\* force_close_all's for loop over the two symbols (line 318): on to the
\* next symbol's reconciliation, or past the last one to line 347 and the
\* return, with the counts of the run.
FCNext(f) ==
    IF f.i < Len(FcSymbolList)
    THEN [f EXCEPT !.pc = "sync", !.i = f.i + 1, !.qty = 0, !.side = "FLAT"]
    ELSE [f EXCEPT !.pc = "returned", !.qty = 0, !.side = "FLAT"]

\* Lines 311-321: the call starts with the first symbol's reconciliation.
FCStart ==
    /\ ~Busy
    /\ fc.pc = "idle"
    /\ fc' = FCNext(IdleFc)
    /\ UNCHANGED <<trading_enabled, positions, is_running, last_candle_times,
                   instruments_cache, loop, task, exch, market, exchChanged,
                   hist, allOk>>

\* Lines 321-330: resync the symbol, then close it if it holds a position.
FCResync(resp) ==
    /\ ~Busy
    /\ fc.pc = "sync"
    /\ LET s  == FcSymbolList[fc.i]
           st == update_position_from_exchange(positions[s],
                                               get_positions(resp))
       IN  /\ resp \in PositionResponses(exch[s])
           /\ positions' = [positions EXCEPT ![s] = st]
           /\ fc' = IF st.pos_state # "FLAT" /\ st.qty > 0
                    THEN [fc EXCEPT !.pc = "close", !.qty = st.qty,
                                    !.side = st.pos_state]
                    ELSE FCNext(fc)
    /\ UNCHANGED <<trading_enabled, is_running, last_candle_times,
                   instruments_cache, loop, task, exch, market, exchChanged,
                   hist, allOk>>

\* Lines 332-341: the close order is answered.
FCCloseAnswered(outcome) ==
    /\ ~Busy
    /\ fc.pc = "close"
    /\ LET s    == FcSymbolList[fc.i]
           side == CloseSide(fc.side)
       IN  /\ outcome \in OrderOutcomes(exch[s], side, fc.qty, TRUE)
           /\ exch' = [exch EXCEPT ![s] =
                         IF outcome = "filled"
                         THEN ExchFill(@, side, fc.qty, TRUE, 0)
                         ELSE @]
           /\ exchChanged' = [exchChanged EXCEPT ![s] = @ \/ outcome = "filled"]
           /\ positions' = [positions EXCEPT ![s] =
                              IF outcome # "rejected" THEN SyncFlat(@) ELSE @]
    /\ fc' = FCNext(IF outcome # "rejected"
                    THEN [fc EXCEPT !.closed_count = @ + 1]
                    ELSE [fc EXCEPT !.failed_count = @ + 1])
    /\ UNCHANGED <<trading_enabled, is_running, last_candle_times,
                   instruments_cache, loop, task, market, hist, allOk>>

NextFC ==
    \/ \E s \in FcSymbols, close \in Prices, upper \in CloudLevels,
          lower \in CloudLevels, ticker \in TickerAnswers :
            PSFetchNew(s, close, upper, lower, ticker)
    \/ \E s \in FcSymbols : \E resp \in PositionResponses(exch[s]) :
            PSPreSync(s, resp)
    \/ \E s \in FcSymbols : SMCall(s)
    \/ \E s \in FcSymbols, info_ok \in BOOLEAN, outcome \in OrderAnswers :
            OMOpen(s, info_ok, outcome)
    \/ \E s \in FcSymbols : \E resp \in PositionResponses(exch[s]) :
            PSPostSync(s, resp)
    \/ FCStart
    \/ \E s \in FcSymbols : \E resp \in PositionResponses(exch[s]) :
            FCResync(resp)
    \/ \E outcome \in OrderAnswers : FCCloseAnswered(outcome)

SpecFC == InitFC /\ [][NextFC]_vars



\* ------------------------ the bot with a gateway and an exchange that comply
\* The bot after start_trading (trading enabled, running, the loop about to
\* start its first cycle), with every position request answered, every
\* order accepted and filled, the instrument info delivered, nobody else
\* trading on the account, and trading never disabled.
InitOk ==
    /\ trading_enabled = TRUE
    /\ positions = [s \in Symbols |-> PositionState]
    /\ is_running = TRUE
    /\ last_candle_times = [s \in Symbols |-> 0]
    /\ instruments_cache = [s \in Symbols |-> FALSE]
    /\ loop = "sleep"
    /\ task = [s \in Symbols |-> IdleTask]
    /\ fc = IdleFc
    /\ exch = [s \in Symbols |-> NoPosition]
    /\ market = [s \in Symbols |-> 1]
    /\ exchChanged = [s \in Symbols |-> FALSE]
    /\ hist = <<>>
    /\ allOk = TRUE

NextOk ==
    \/ \E s \in Symbols, n \in KlineCounts : PSFetchShort(s, n)
    \/ \E s \in Symbols : PSFetchSame(s)
    \/ \E s \in Symbols, close \in Prices, upper \in CloudLevels,
          lower \in CloudLevels, ticker \in TickerAnswers :
            PSFetchNew(s, close, upper, lower, ticker)
    \/ \E s \in Symbols :
          \E resp \in PositionResponses(exch[s]) \ {FailedResponse} :
            PSPreSync(s, resp)
    \/ \E s \in Symbols : SMCall(s)
    \/ \E s \in Symbols : OMClose(s, "filled")
    \/ \E s \in Symbols : OMOpen(s, TRUE, "filled")
    \/ \E s \in Symbols :
          \E resp \in PositionResponses(exch[s]) \ {FailedResponse} :
            PSPostSync(s, resp)
    \/ LoopWake
    \/ LoopJoin
    \/ \E s \in Symbols : NewCandle(s)

SpecOk == InitOk /\ [][NextOk]_vars



\* ----------------------------------- the same, with tasks that may raise
\* Any await of process_symbol, and the code after it up to the next await
\* (the indicator computation, float() of the ticker's lastPrice and of the
\* position record's fields), may raise; lines 252-253 catch it.
NextAbort ==
    \/ NextOk
    \/ \E s \in Symbols : PSRaise(s)

SpecAbort == InitOk /\ [][NextAbort]_vars


\* ========================================================================
\* Properties
\* ========================================================================

\* The steps of one process_symbol task, read off its position.
FetchesNew(s) ==
    \E close \in Prices, upper \in CloudLevels, lower \in CloudLevels,
       ticker \in TickerAnswers : PSFetchNew(s, close, upper, lower, ticker)

SMCallStep(s) == task[s].pc = "sm" /\ task'[s].pc # "sm"

\* The order manager returns false to process_signal in this step.
OMFails(s) ==
    \/ OMClose(s, "rejected")
    \/ \E o \in OrderAnswers : OMOpen(s, FALSE, o) /\ ~instruments_cache[s]
    \/ \E i \in BOOLEAN : OMOpen(s, i, "rejected")

\* The order manager returns true to process_signal in this step.
OMSucceeds(s) ==
    \/ /\ task[s].op = "close_position"
       /\ \E o \in {"unfilled", "filled"} : OMClose(s, o)
    \/ \E i \in BOOLEAN, o \in {"unfilled", "filled"} :
          OMOpen(s, i, o) /\ (instruments_cache[s] \/ i)

SamePosition(a, b) ==
    /\ a.pos_state = b.pos_state
    /\ a.qty = b.qty
    /\ a.entry_price = b.entry_price

\* C1: with trading enabled, when the order manager reports failure to
\* process_signal, process_signal returns success = false and has written
\* nothing but current_zone and last_signal (neither before the await nor
\* after it): pos_state, qty, entry_price and prev_zone are as they were,
\* and a call with the same zone on the state the call read decides the
\* same action again.
C1_FailedOrderKeepsState ==
    [][\A s \in Symbols :
         /\ (SMCallStep(s) /\ task'[s].pc = "order")
               => positions'[s] = positions[s]
         /\ OMFails(s) =>
              /\ task'[s].pc = "postsync"
              /\ ~task'[s].success
              /\ SamePosition(positions'[s], positions[s])
              /\ positions'[s].prev_zone = positions[s].prev_zone
              /\ positions'[s].unrealized_pnl = positions[s].unrealized_pnl
              /\ positions'[s].last_candle_time = positions[s].last_candle_time
              /\ positions'[s].current_zone = task[s].zone
              /\ positions'[s].last_signal = task'[s].signal
              /\ positions'[s].prev_zone # task[s].zone
              /\ positions[s].pos_state = task[s].pos_state
                   => \A p \in Prices :
                        SMCallResult(positions'[s], task[s].zone, p, TRUE).op
                            = task[s].op
      ]_vars

\* C1 witness: the open-long of a crossover failed: still FLAT, prev_zone
\* still UNDER, the failure recorded.
C1_Witness ==
    \E s \in Symbols :
       /\ task[s].pc = "postsync"
       /\ ~task[s].success
       /\ task[s].op = "open_long"
       /\ positions[s].pos_state = "FLAT"
       /\ positions[s].prev_zone = "UNDER"
       /\ positions[s].current_zone = "OVER"
       /\ positions[s].last_signal = "Crossover Cloud -> Open LONG (FAILED)"

\* A process_signal call with trading disabled on a zone change whose
\* decision is an order action.
DisabledDecision(s) ==
    /\ SMCallStep(s)
    /\ ~trading_enabled
    /\ positions[s].prev_zone \notin {"NONE", task[s].zone}
    /\ SMAction(positions[s].pos_state, positions[s].prev_zone,
                task[s].zone) # "none"

\* C2 as stated: with trading disabled, a zone change whose decision is an
\* order action leaves pos_state, qty, entry_price and prev_zone unchanged.
C2_Original ==
    [][\A s \in Symbols :
         DisabledDecision(s) =>
            /\ SamePosition(positions'[s], positions[s])
            /\ positions'[s].prev_zone = positions[s].prev_zone
      ]_vars

\* C2 amended: with trading disabled, a zone change whose decision is an
\* order action leaves pos_state, qty and entry_price unchanged, but
\* prev_zone (and current_zone) advance to the observed zone and the
\* decision's signal is recorded.
C2_DisabledAdvancesZone ==
    [][\A s \in Symbols :
         DisabledDecision(s) =>
            /\ SamePosition(positions'[s], positions[s])
            /\ positions'[s].prev_zone = task[s].zone
            /\ positions'[s].current_zone = task[s].zone
            /\ positions'[s].prev_zone # positions[s].prev_zone
            /\ task'[s].pc = "postsync"
            /\ task'[s].success
            /\ positions'[s].last_signal = task'[s].signal
      ]_vars

\* C2 witness: a crossover seen FLAT with trading disabled: no order was
\* awaited, and prev_zone is OVER.
C2_Witness ==
    \E s \in Symbols :
       /\ task[s].pc = "postsync"
       /\ task[s].op = "none"
       /\ task[s].signal = "Crossover Cloud -> Open LONG"
       /\ positions[s].pos_state = "FLAT"
       /\ positions[s].prev_zone = "OVER"

\* A reconciliation whose position fetch failed at the gateway.
FailedSync(s) ==
    \/ PSPreSync(s, FailedResponse)
    \/ PSPostSync(s, FailedResponse)
    \/ fc.pc = "sync" /\ SymbolList[fc.i] = s /\ FCSync(FailedResponse)

\* C3 as stated: a reconciliation whose fetch failed leaves pos_state, qty,
\* entry_price and unrealized_pnl as they were.
C3_FailedFetchKeepsState ==
    [][\A s \in Symbols :
         FailedSync(s) =>
            /\ SamePosition(positions'[s], positions[s])
            /\ positions'[s].unrealized_pnl = positions[s].unrealized_pnl
      ]_vars

\* The signals process_signal records for a failed order, with the
\* operation, the zone and the position they were decided on.
FailedSignals ==
    {[signal |-> "Crossover Cloud -> Open LONG (FAILED)",
      op |-> "open_long", zone |-> "OVER", pos_state |-> "FLAT"],
     [signal |-> "Exit Cloud Up -> Open LONG (FAILED)",
      op |-> "open_long", zone |-> "OVER", pos_state |-> "FLAT"],
     [signal |-> "Crossover Cloud -> Reverse SHORT -> LONG (FAILED)",
      op |-> "reverse_to_long", zone |-> "OVER", pos_state |-> "SHORT"],
     [signal |-> "Crossunder Cloud -> Open SHORT (FAILED)",
      op |-> "open_short", zone |-> "UNDER", pos_state |-> "FLAT"],
     [signal |-> "Exit Cloud Down -> Open SHORT (FAILED)",
      op |-> "open_short", zone |-> "UNDER", pos_state |-> "FLAT"],
     [signal |-> "Crossunder Cloud -> Reverse LONG -> SHORT (FAILED)",
      op |-> "reverse_to_short", zone |-> "UNDER", pos_state |-> "LONG"],
     [signal |-> "Enter Cloud -> Close LONG (FAILED)",
      op |-> "close_position", zone |-> "IN", pos_state |-> "LONG"],
     [signal |-> "Enter Cloud -> Close SHORT (FAILED)",
      op |-> "close_position", zone |-> "IN", pos_state |-> "SHORT"]}

\* The symbol's last state-machine run ended in a failed order.
FailedPending(s) ==
    \E f \in FailedSignals : f.signal = positions[s].last_signal

\* C4 as stated: after a failed order, the next cycle whose candle fetch
\* succeeds, with the zone and the exchange position unchanged, runs the
\* state machine again, and the state machine issues the same order.
C4_Original ==
    [][\A s \in Symbols :
         /\ ( /\ FailedPending(s)
              /\ ~exchChanged[s]
              /\ trading_enabled
              /\ \/ PSFetchSame(s)
                 \/ FetchesNew(s) /\ task'[s].zone = positions[s].current_zone )
            => task'[s].pc = "sync"
         /\ \A f \in FailedSignals :
              ( /\ SMCallStep(s)
                /\ f.signal = positions[s].last_signal
                /\ ~exchChanged[s]
                /\ trading_enabled
                /\ task[s].zone = f.zone )
              => (task'[s].pc = "order" /\ task'[s].op = f.op)
      ]_vars

\* C4 amended: after a failed order, a cycle that sees the candle already
\* processed is skipped (no reconciliation, no state-machine run); the
\* first cycle that sees a new closed candle runs the state machine again,
\* with prev_zone as the failed call left it, and with the same zone,
\* trading enabled and the reconciled pos_state the failed decision was
\* taken on, it issues the same order-manager operation.
C4_RetryOnNextCandle ==
    [][\A s \in Symbols :
         /\ (FailedPending(s) /\ PSFetchSame(s))
               => (task'[s].pc = "same" /\ positions' = positions)
         /\ (FailedPending(s) /\ FetchesNew(s))
               => task'[s].pc = "sync"
         /\ (FailedPending(s) /\ task[s].pc \notin {"sm", "order"})
               => positions'[s].prev_zone = positions[s].prev_zone
         /\ \A f \in FailedSignals :
              ( /\ SMCallStep(s)
                /\ f.signal = positions[s].last_signal
                /\ trading_enabled
                /\ task[s].zone = f.zone
                /\ positions[s].pos_state = f.pos_state )
              => (task'[s].pc = "order" /\ task'[s].op = f.op)
      ]_vars

\* C4 witness: the failed open-long of an earlier candle is being
\* attempted again on a later candle.
C4_Witness ==
    \E s \in Symbols :
       /\ task[s].pc = "order"
       /\ task[s].op = "open_long"
       /\ positions[s].last_signal = "Crossover Cloud -> Open LONG (FAILED)"
       /\ positions[s].last_candle_time >= 3

\* C5: with trading enabled, when the order manager reports success to
\* process_signal, the state is committed in that step: LONG after an open
\* long or a reverse to long, SHORT after an open short or a reverse to
\* short, both with entry_price the current price and qty the notional over
\* the price; FLAT with qty 0 and entry_price 0 after a close; prev_zone and
\* current_zone become the observed zone and success = true is returned.
C5_SuccessCommits ==
    [][\A s \in Symbols :
         OMSucceeds(s) =>
            LET t  == task[s]
                st == positions'[s]
            IN  /\ task'[s].pc = "postsync"
                /\ task'[s].success
                /\ st.prev_zone = t.zone
                /\ st.current_zone = t.zone
                /\ t.op \in {"open_long", "reverse_to_long"} =>
                     /\ st.pos_state = "LONG"
                     /\ st.entry_price = t.price
                     /\ st.qty * t.price = POSITION_SIZE_USDT
                /\ t.op \in {"open_short", "reverse_to_short"} =>
                     /\ st.pos_state = "SHORT"
                     /\ st.entry_price = t.price
                     /\ st.qty * t.price = POSITION_SIZE_USDT
                /\ t.op = "close_position" =>
                     /\ st.pos_state = "FLAT"
                     /\ st.qty = 0
                     /\ st.entry_price = 0
      ]_vars

\* C5 witness: a reverse from SHORT to LONG succeeded at price 50 on a
\* position the exchange had reported with another size and entry price.
C5_Witness ==
    \E s \in Symbols :
       /\ task[s].pc = "postsync"
       /\ task[s].success
       /\ task[s].op = "reverse_to_long"
       /\ task[s].qty_to_close = 1
       /\ task[s].price = 50
       /\ positions[s].pos_state = "LONG"
       /\ positions[s].qty = 2
       /\ positions[s].entry_price = 50
       /\ positions[s].prev_zone = "OVER"

\* C6: process_signal calls reverse_position only on a complete crossing
\* (SHORT, UNDER -> OVER, to LONG; LONG, OVER -> UNDER, to SHORT); leaving
\* the cloud with a position (SHORT, IN -> OVER; LONG, IN -> UNDER) calls no
\* order-manager operation and leaves the position as it is.
C6_ReverseOnlyOnCrossing ==
    [][\A s \in Symbols :
         LET st == positions[s]
             z  == task[s].zone
         IN  SMCallStep(s) =>
               /\ task'[s].op = "reverse_to_long" =>
                    (st.pos_state = "SHORT" /\ st.prev_zone = "UNDER"
                                            /\ z = "OVER")
               /\ task'[s].op = "reverse_to_short" =>
                    (st.pos_state = "LONG" /\ st.prev_zone = "OVER"
                                           /\ z = "UNDER")
               /\ ( \/ st.pos_state = "SHORT" /\ st.prev_zone = "IN"
                                              /\ z = "OVER"
                    \/ st.pos_state = "LONG" /\ st.prev_zone = "IN"
                                             /\ z = "UNDER" )
                    => /\ task'[s].pc # "order"
                       /\ task'[s].op = "none"
                       /\ SamePosition(positions'[s], st)
                       /\ exch' = exch
      ]_vars

\* C6 witness: OVER was observed from inside the cloud while SHORT: no
\* operation awaited, still SHORT.
C6_Witness ==
    \E s \in Symbols :
       /\ task[s].pc = "postsync"
       /\ task[s].op = "none"
       /\ task[s].signal = "Exit Cloud Up -> "
       /\ positions[s].pos_state = "SHORT"
       /\ positions[s].prev_zone = "OVER"

\* C7: in every reachable state, a FLAT position has qty 0 and entry_price 0.
C7_FlatHasNoQty ==
    \A s \in Symbols :
       positions[s].pos_state = "FLAT"
          => (positions[s].qty = 0 /\ positions[s].entry_price = 0)

\* C7 witness: FLAT again after the exchange had reported a position (the
\* unrealized pnl it reported was reset too), by a close the state machine
\* ordered on entering the cloud.
C7_Witness ==
    \E s \in Symbols :
       /\ positions[s].pos_state = "FLAT"
       /\ positions[s].last_signal = "Enter Cloud -> Close LONG"
       /\ task[s].pc = "postsync"
       /\ task[s].qty_to_close = 2
       /\ fc.pc = "close"

\* C8: prev_zone is NONE until the symbol's first process_signal call, that
\* call sets it to a zone, and it is never NONE again.
C8_PrevZoneLeavesNoneOnce ==
    [][\A s \in Symbols :
         /\ positions[s].prev_zone # "NONE" => positions'[s].prev_zone # "NONE"
         /\ SMCallStep(s) => positions'[s].prev_zone \in Zones
         /\ (positions[s].prev_zone = "NONE" /\ ~SMCallStep(s))
               => positions'[s].prev_zone = "NONE"
      ]_vars

\* C8 witness: the loop was stopped and started again after the first
\* observation; prev_zone is a zone.
C8_Witness ==
    \E s \in Symbols :
       /\ positions[s].prev_zone \in Zones
       /\ positions[s].last_signal = "N/A"
       /\ last_candle_times[s] = 1
       /\ loop = "gather"
       /\ task[s].pc = "same"
       /\ fc.pc = "sync"

ScenarioZones == <<"IN", "IN", "OVER", "OVER", "IN", "UNDER">>
ScenarioLen == Len(ScenarioZones)

\* The scenario of C9 has been fed: from the fresh state, with trading
\* enabled and every order succeeding.
ScenarioFed ==
    /\ Len(hist) >= ScenarioLen
    /\ allOk
    /\ \A i \in 1..ScenarioLen : hist[i].zone = ScenarioZones[i]

\* C9: fed IN, IN, OVER, OVER, IN, UNDER from the fresh FLAT state with
\* trading enabled and every order succeeding, process_signal answers
\* Initializing, Holding, open long, Holding, close, open short, with
\* pos_state FLAT, FLAT, LONG, LONG, FLAT, SHORT; three orders, no reverse.
C9_Scenario ==
    (Len(hist) = ScenarioLen /\ ScenarioFed) =>
       /\ [i \in 1..ScenarioLen |-> hist[i].signal] =
             <<"Initializing", "Holding", "Exit Cloud Up -> Open LONG",
               "Holding", "Enter Cloud -> Close LONG",
               "Exit Cloud Down -> Open SHORT">>
       /\ [i \in 1..ScenarioLen |-> hist[i].op] =
             <<"none", "none", "open_long", "none", "close_position",
               "open_short">>
       /\ [i \in 1..ScenarioLen |-> hist[i].pos_state] =
             <<"FLAT", "FLAT", "LONG", "LONG", "FLAT", "SHORT">>
       /\ Cardinality({i \in 1..ScenarioLen : hist[i].op # "none"}) = 3
       /\ \A i \in 1..ScenarioLen : ~IsReverse(hist[i].op)
       /\ \A s \in Symbols : positions[s].pos_state = "SHORT"

\* C9 witness: the whole scenario has been fed.
C9_Witness ==
    Len(hist) = ScenarioLen /\ ScenarioFed

\* C10: a process_signal call with trading disabled awaits no
\* order-manager operation and sends nothing to the exchange.
C10_DisabledPlacesNoOrder ==
    [][\A s \in Symbols :
         (SMCallStep(s) /\ ~trading_enabled) =>
            /\ task'[s].pc # "order"
            /\ task'[s].op = "none"
            /\ exch' = exch
            /\ instruments_cache' = instruments_cache
      ]_vars

\* C10 witness: a complete crossover seen SHORT with trading disabled: the
\* reverse was decided, nothing was awaited.
C10_Witness ==
    \E s \in Symbols :
       /\ task[s].pc = "postsync"
       /\ task[s].op = "none"
       /\ task[s].signal = "Crossover Cloud -> Reverse SHORT -> LONG"
       /\ ~trading_enabled
       /\ positions[s].pos_state = "SHORT"

\* C11: with trading enabled, prev_zone a zone and different from the
\* observed zone, the operation process_signal attempts is the one of the
\* decision table: open long (FLAT, to OVER), open short (FLAT, to UNDER),
\* reverse to long (SHORT, UNDER to OVER), reverse to short (LONG, OVER to
\* UNDER), close (LONG or SHORT, to IN); in every other case no order is
\* attempted, success is true, prev_zone advances to the observed zone and
\* the position fields stay.
C11_DecisionTable ==
    [][\A s \in Symbols, zone \in Zones, price \in Prices, ok \in BOOLEAN :
         ( /\ SMOnce(zone, price, TRUE, ok)
           /\ positions[s].prev_zone \notin {"NONE", zone} )
         => LET st   == positions[s]
                want ==
                  CASE zone = "OVER" /\ st.pos_state = "FLAT" -> "open_long"
                    [] zone = "UNDER" /\ st.pos_state = "FLAT" -> "open_short"
                    [] zone = "OVER" /\ st.prev_zone = "UNDER"
                                     /\ st.pos_state = "SHORT"
                          -> "reverse_to_long"
                    [] zone = "UNDER" /\ st.prev_zone = "OVER"
                                      /\ st.pos_state = "LONG"
                          -> "reverse_to_short"
                    [] zone = "IN" /\ st.pos_state \in {"LONG", "SHORT"}
                          -> "close_position"
                    [] OTHER -> "none"
            IN  /\ hist'[1].op = want
                /\ want = "none" =>
                     /\ hist'[1].success
                     /\ positions'[s].prev_zone = zone
                     /\ positions'[s].current_zone = zone
                     /\ SamePosition(positions'[s], st)
      ]_vars

\* C11 witness: LONG, OVER to UNDER: the reverse to short was attempted and
\* succeeded.
C11_Witness ==
    /\ Len(hist) = 1
    /\ hist[1].op = "reverse_to_short"
    /\ hist[1].zone = "UNDER"
    /\ hist[1].success
    /\ \E s \in Symbols : /\ positions[s].pos_state = "SHORT"
                          /\ positions[s].prev_zone = "UNDER"
                          /\ positions[s].unrealized_pnl = 7

\* C12: with prev_zone NONE, process_signal sets prev_zone and current_zone
\* to the observed zone, returns (true, "Initializing"), attempts no order
\* and writes no other field, whatever pos_state and the trading flag are.
C12_Initializing ==
    [][\A s \in Symbols, zone \in Zones, price \in Prices,
          enabled \in BOOLEAN, ok \in BOOLEAN :
         ( /\ SMOnce(zone, price, enabled, ok)
           /\ positions[s].prev_zone = "NONE" )
         => /\ positions'[s] = [positions[s] EXCEPT !.prev_zone = zone,
                                                    !.current_zone = zone]
            /\ hist'[1].success
            /\ hist'[1].signal = "Initializing"
            /\ hist'[1].op = "none"
      ]_vars

\* C12 witness: the first observation (UNDER) arrived with a SHORT position
\* synced from the exchange: initialized, still SHORT.
C12_Witness ==
    /\ Len(hist) = 1
    /\ hist[1].signal = "Initializing"
    /\ hist[1].zone = "UNDER"
    /\ \E s \in Symbols : /\ positions[s].pos_state = "SHORT"
                          /\ positions[s].qty = 2
                          /\ positions[s].prev_zone = "UNDER"
                          /\ positions[s].current_zone = "UNDER"
                          /\ positions[s].last_signal = "N/A"

\* C13 as stated: with prev_zone equal to the observed zone, process_signal
\* returns (true, "Holding"), attempts no order and changes no field of the
\* PositionState but current_zone.
C13_Original ==
    [][\A s \in Symbols, zone \in Zones, price \in Prices,
          enabled \in BOOLEAN, ok \in BOOLEAN :
         ( /\ SMOnce(zone, price, enabled, ok)
           /\ positions[s].prev_zone = zone )
         => /\ positions'[s] = [positions[s] EXCEPT !.current_zone = zone]
            /\ hist'[1].success
            /\ hist'[1].signal = "Holding"
            /\ hist'[1].op = "none"
      ]_vars

\* C13 amended: with prev_zone equal to the observed zone, process_signal
\* returns (true, "Holding"), attempts no order and changes no field of the
\* PositionState but current_zone and last_signal, which becomes "Holding".
C13_HoldingWritesSignal ==
    [][\A s \in Symbols, zone \in Zones, price \in Prices,
          enabled \in BOOLEAN, ok \in BOOLEAN :
         ( /\ SMOnce(zone, price, enabled, ok)
           /\ positions[s].prev_zone = zone )
         => /\ positions'[s] = [positions[s] EXCEPT !.current_zone = zone,
                                                    !.last_signal = "Holding"]
            /\ hist'[1].success
            /\ hist'[1].signal = "Holding"
            /\ hist'[1].op = "none"
      ]_vars

\* C13 witness: OVER observed again while LONG: Holding returned and
\* recorded, the position as it was.
C13_Witness ==
    /\ Len(hist) = 1
    /\ hist[1].signal = "Holding"
    /\ hist[1].zone = "OVER"
    /\ \E s \in Symbols : /\ positions[s].pos_state = "LONG"
                          /\ positions[s].prev_zone = "OVER"
                          /\ positions[s].last_signal = "Holding"
                          /\ positions[s].entry_price = 50
                          /\ positions[s].unrealized_pnl = 7

\* C14: the loop starts the tasks of a cycle together, only when no task is
\* in flight, and leaves the gather only when every task of the cycle has
\* returned: outside the gather no task is in flight, so tasks of two
\* cycles of the loop never overlap.
C14_FanOutThenJoin ==
    /\ [](loop # "gather" => \A s \in LoopSymbols : task[s].pc \notin InFlight)
    /\ [][ /\ (loop # "gather" /\ loop' = "gather")
              => \A s \in LoopSymbols : /\ task[s].pc \notin InFlight
                                        /\ task'[s].pc = "fetch"
           /\ \A s \in LoopSymbols :
                (task[s].pc \notin InFlight /\ task'[s].pc \in InFlight)
                   => (loop = "sleep" /\ loop' = "gather")
           /\ (loop = "gather" /\ loop' # "gather")
              => \A s \in LoopSymbols : task[s].pc \in Returned
         ]_vars

\* C14 witness: one task of the cycle has returned, the others are still at
\* an await, and the loop is waiting in the gather.
C14_Witness ==
    /\ loop = "gather"
    /\ task["BTCUSDT"].pc = "same"
    /\ task["ETHUSDT"].pc = "order"
    /\ task["BNBUSDT"].pc = "fetch"

\* C15: an exception raised in one symbol's task ends that task only: the
\* loop, the flag and the other tasks are untouched in that step, every
\* other task in flight still returns, the gather completes, and the loop
\* goes on to its next cycle while the bot is running.
C15_ExceptionContained ==
    /\ [][\A s \in LoopSymbols :
            (task[s].pc \in InFlight /\ task'[s].pc = "failed")
               => /\ loop' = loop
                  /\ is_running' = is_running
                  /\ \A u \in LoopSymbols \ {s} : task'[u] = task[u]
         ]_vars
    /\ \A s \in LoopSymbols, u \in LoopSymbols :
          (task[s].pc = "failed" /\ task[u].pc \in InFlight)
             ~> (task[u].pc \in Returned)
    /\ \A s \in LoopSymbols : (task[s].pc = "failed") ~> (loop = "sleep")
    /\ (loop = "sleep" /\ is_running) ~> (loop = "gather" \/ ~is_running)

\* C15 witness: one task has failed at its first await while another is
\* past its order and a third has not moved.
C15_Witness ==
    /\ loop = "gather"
    /\ task["ETHUSDT"].pc = "failed"
    /\ task["BTCUSDT"].pc = "postsync"
    /\ task["BNBUSDT"].pc = "fetch"
    /\ is_running

\* C16: stop() only clears the flag (the loop and the tasks in flight are
\* untouched); the loop exits only at its condition, at a cycle boundary,
\* with the flag cleared, and starts no cycle there; once the flag is
\* cleared the tasks in flight return and the loop eventually exits.
C16_StopIsCooperative ==
    /\ [][ /\ (is_running /\ ~is_running') => (loop' = loop /\ task' = task)
           /\ (loop # "none" /\ loop' = "none")
              => (loop = "sleep" /\ ~is_running /\ task' = task)
           /\ (loop = "sleep" /\ ~is_running /\ loop' # loop)
              => loop' = "none"
           /\ (loop = "gather" /\ loop' # loop)
              => \A s \in LoopSymbols : task[s].pc \in Returned
         ]_vars
    /\ \A s \in LoopSymbols :
          (~is_running /\ task[s].pc \in InFlight) ~> (task[s].pc \in Returned)
    /\ (~is_running) ~> (loop = "none")

\* C16 witness: stop() was called in the middle of a cycle: the flag is
\* cleared, tasks are still in flight.
C16_Witness ==
    /\ ~is_running
    /\ loop = "gather"
    /\ task["BTCUSDT"].pc = "order"
    /\ task["ETHUSDT"].pc = "done"
    /\ task["BNBUSDT"].pc = "sync"

\* C17: a task that finds the latest candle's open time equal to the last
\* processed one returns without a reconciliation, a state-machine step or
\* an order (no PositionState field, nothing on the exchange changes); a
\* task goes on only for a candle time newer than the recorded one, which it
\* records, so each state-machine run is for a newer candle time than the
\* run before it.
C17_SameCandleSkipped ==
    [][\A s \in Symbols :
         /\ ( /\ task[s].pc = "fetch"
              /\ last_candle_times[s] # 0
              /\ market[s] = last_candle_times[s]
              /\ task'[s] # task[s] )
            => /\ task'[s].pc \in {"same", "short"}
               /\ positions' = positions
               /\ exch' = exch
               /\ last_candle_times' = last_candle_times
         /\ (task[s].pc = "fetch" /\ task'[s].pc = "sync")
            => /\ last_candle_times'[s] = market[s]
               /\ last_candle_times'[s] > last_candle_times[s]
               /\ task'[s].candle = market[s]
         /\ (task[s].pc # "sm" /\ task'[s].pc = "sm")
            => /\ positions'[s].last_candle_time = task[s].candle
               /\ positions'[s].last_candle_time
                     > positions[s].last_candle_time
      ]_vars

\* C17 witness: the position was closed on the exchange, and the cycle on
\* the candle already processed returned without noticing: still LONG.
C17_Witness ==
    \E s \in Symbols :
       /\ task[s].pc = "same"
       /\ positions[s].pos_state = "LONG"
       /\ exch[s].size = 0
       /\ positions[s].last_candle_time = market[s]
       /\ market[s] = 2

\* C18: a task enters process_signal only out of a reconciliation from the
\* exchange; when process_signal returns a signal other than "Holding",
\* "Initializing" and "No signal" the task goes on to a second
\* reconciliation and then ends, and when it returns one of these the task
\* ends without one.
C18_SyncBeforeAndAfter ==
    [][\A s \in Symbols :
         LET quiet == {"Holding", "Initializing", "No signal"}
         IN  /\ (task[s].pc # "sm" /\ task'[s].pc = "sm")
                => /\ task[s].pc = "sync"
                   /\ \E resp \in PositionResponses(exch[s]) :
                        positions'[s] =
                          [update_position_from_exchange(
                               positions[s], get_positions(resp))
                             EXCEPT !.current_zone = task[s].zone,
                                    !.last_candle_time = task[s].candle]
             /\ (SMCallStep(s) /\ task'[s].pc # "order")
                => LET r == SMCallResult(positions[s], task[s].zone,
                                         task[s].price, trading_enabled)
                   IN  /\ r.signal \in quiet => task'[s].pc = "done"
                       /\ r.signal \notin quiet
                            => /\ task'[s].pc = "postsync"
                               /\ task'[s].signal = r.signal
             /\ (task[s].pc = "order" /\ task'[s].pc # "order")
                => /\ task'[s].pc = "postsync"
                   /\ task'[s].signal \notin quiet
             /\ (task[s].pc = "postsync" /\ task'[s].pc # "postsync")
                => /\ task[s].signal \notin quiet
                   /\ task'[s].pc = "done"
                   /\ \E resp \in PositionResponses(exch[s]) :
                        positions'[s] =
                          update_position_from_exchange(
                              positions[s], get_positions(resp))
      ]_vars

\* C18 witness: the cloud was entered while FLAT: no order, and the task is
\* about to reconcile a second time.
C18_Witness ==
    \E s \in Symbols :
       /\ task[s].pc = "postsync"
       /\ task[s].signal = "Enter Cloud (already FLAT)"
       /\ task[s].op = "none"
       /\ positions[s].pos_state = "FLAT"
       /\ positions[s].prev_zone = "IN"

\* A reconciliation of symbol s whose fetch returned resp.
SyncStep(s, resp) ==
    \/ PSPreSync(s, resp)
    \/ PSPostSync(s, resp)
    \/ fc.pc = "sync" /\ SymbolList[fc.i] = s /\ FCSync(resp)

\* C19: a reconciliation whose fetch succeeded sets pos_state (LONG for
\* Buy, SHORT otherwise), qty, entry_price and unrealized_pnl from the
\* exchange's record when its size is positive; makes the state FLAT with
\* qty 0 and entry_price 0 when the size is 0 or there is no record; and
\* writes none of these fields when there is no record and the state was
\* FLAT already.  prev_zone and last_signal are never written.
C19_SyncFromExchange ==
    [][\A s \in Symbols :
         \A resp \in PositionResponses(exch[s]) :
            (resp.retCode = 0 /\ SyncStep(s, resp))
            => LET old == positions[s]
                   new == positions'[s]
                   rec == resp.list
               IN  /\ (Len(rec) > 0 /\ rec[1].size > 0)
                      => /\ new.pos_state = IF rec[1].side = "Buy"
                                            THEN "LONG" ELSE "SHORT"
                         /\ new.qty = rec[1].size
                         /\ new.entry_price = rec[1].avgPrice
                         /\ new.unrealized_pnl = rec[1].unrealisedPnl
                   /\ (Len(rec) = 0 \/ (Len(rec) > 0 /\ rec[1].size = 0))
                      => /\ new.pos_state = "FLAT"
                         /\ new.qty = 0
                         /\ new.entry_price = 0
                   /\ (Len(rec) > 0 /\ rec[1].size = 0)
                      => new.unrealized_pnl = 0
                   /\ (Len(rec) = 0 /\ old.pos_state # "FLAT")
                      => new.unrealized_pnl = 0
                   /\ (Len(rec) = 0 /\ old.pos_state = "FLAT")
                      => /\ SamePosition(new, old)
                         /\ new.unrealized_pnl = old.unrealized_pnl
                   /\ new.prev_zone = old.prev_zone
                   /\ new.last_signal = old.last_signal
      ]_vars

\* C19 witness: the local state is the short position the exchange
\* reported, after the state machine had recorded a different size.
C19_Witness ==
    \E s \in Symbols :
       /\ task[s].pc = "done"
       /\ positions[s].pos_state = "SHORT"
       /\ positions[s].unrealized_pnl = 7
       /\ exch[s].side = "Sell"
       /\ positions[s].qty = exch[s].size
       /\ positions[s].entry_price = exch[s].avgPrice
       /\ positions[s].qty # calculate_expected_qty(positions[s].entry_price)

\* C20: reverse_position places the reduce-only close first; a rejected
\* close makes it return false with no opening order placed; after an
\* accepted close, and only then, it runs the opening order for the new
\* side and returns that step's result.
C20_ReverseClosesFirst ==
    [][\A s \in Symbols :
         (task[s].pc = "order" /\ IsReverse(task[s].op)) =>
            /\ \A outcome \in OrderAnswers :
                 (task[s].phase = "close" /\ OMClose(s, outcome))
                 => IF outcome = "rejected"
                    THEN /\ task'[s].pc = "postsync"
                         /\ ~task'[s].success
                         /\ exch' = exch
                         /\ instruments_cache' = instruments_cache
                    ELSE /\ task'[s].pc = "order"
                         /\ task'[s].phase = "open"
                         /\ task'[s].op = task[s].op
                         /\ positions' = positions
            /\ (task[s].phase = "close" /\ task'[s] # task[s])
                 => /\ \E outcome \in OrderAnswers : OMClose(s, outcome)
                    /\ exch'[s] \in
                         {exch[s],
                          ExchFill(exch[s], CloseSide(task[s].pos_state),
                                   task[s].qty_to_close, TRUE, task[s].price)}
            /\ \A info_ok \in BOOLEAN, outcome \in OrderAnswers :
                 OMOpen(s, info_ok, outcome)
                 => /\ task[s].phase = "open"
                    /\ task'[s].pc = "postsync"
                    /\ task'[s].success =
                         ( /\ instruments_cache[s] \/ info_ok
                           /\ outcome # "rejected" )
                    /\ outcome = "filled"
                         => exch'[s] =
                              ExchFill(exch[s],
                                       IF task[s].op = "reverse_to_long"
                                       THEN "Buy" ELSE "Sell",
                                       POSITION_SIZE_USDT \div task[s].price,
                                       FALSE, task[s].price)
      ]_vars

\* C20 witness: the close of a reverse was filled and the opening order
\* rejected: false was returned, the exchange is flat, the state still SHORT.
C20_Witness ==
    \E s \in Symbols :
       /\ task[s].pc = "postsync"
       /\ task[s].op = "reverse_to_long"
       /\ ~task[s].success
       /\ exch[s].size = 0
       /\ positions[s].pos_state = "SHORT"
       /\ positions[s].last_signal
             = "Crossover Cloud -> Reverse SHORT -> LONG (FAILED)"

\* The signals of a reverse that failed, with the zone they were decided on
\* and the operation that opens the same side from FLAT.
HalfReversed ==
    {[signal |-> "Crossover Cloud -> Reverse SHORT -> LONG (FAILED)",
      zone |-> "OVER", open |-> "open_long"],
     [signal |-> "Crossunder Cloud -> Reverse LONG -> SHORT (FAILED)",
      zone |-> "UNDER", open |-> "open_short"]}

\* C21: when the close of a reverse was accepted and its opening order
\* failed, process_signal leaves pos_state, qty, entry_price and prev_zone
\* as they were; the reconciliation after that signal, when its fetch
\* succeeds and reports no position, makes the state FLAT and leaves
\* prev_zone; and the next process_signal call that sees the same zone on
\* the FLAT state (trading enabled) asks for the plain opening order of the
\* new side, with nothing to close.
C21_HalfReversedRecovers ==
    [][\A s \in Symbols :
         /\ ( /\ task[s].pc = "order"
              /\ IsReverse(task[s].op)
              /\ task[s].phase = "open"
              /\ task'[s].pc = "postsync"
              /\ ~task'[s].success )
            => /\ SamePosition(positions'[s], positions[s])
               /\ positions'[s].prev_zone = positions[s].prev_zone
               /\ positions'[s].prev_zone # task[s].zone
         /\ \A resp \in PositionResponses(exch[s]) :
              ( /\ task[s].pc = "postsync"
                /\ IsReverse(task[s].op)
                /\ ~task[s].success
                /\ resp.retCode = 0
                /\ (Len(resp.list) = 0 \/ resp.list[1].size = 0)
                /\ PSPostSync(s, resp) )
              => /\ positions'[s].pos_state = "FLAT"
                 /\ positions'[s].qty = 0
                 /\ positions'[s].prev_zone = positions[s].prev_zone
                 /\ positions'[s].last_signal = positions[s].last_signal
         /\ \A h \in HalfReversed :
              ( /\ SMCallStep(s)
                /\ trading_enabled
                /\ positions[s].last_signal = h.signal
                /\ positions[s].pos_state = "FLAT"
                /\ task[s].zone = h.zone )
              => /\ task'[s].pc = "order"
                 /\ task'[s].op = h.open
                 /\ task'[s].phase = "single"
                 /\ task'[s].qty_to_close = 0
      ]_vars

\* C21 witness: after a reverse to long whose close was filled and whose
\* opening order failed, the state went FLAT at the reconciliation and the
\* next candle, over the cloud again, has the plain open-long at the order
\* manager.
C21_Witness ==
    \E s \in Symbols :
       /\ task[s].pc = "order"
       /\ task[s].op = "open_long"
       /\ task[s].pos_state = "FLAT"
       /\ positions[s].pos_state = "FLAT"
       /\ positions[s].prev_zone = "UNDER"
       /\ exch[s].size = 0
       /\ positions[s].last_signal
             = "Crossover Cloud -> Reverse SHORT -> LONG (FAILED)"

\* C22: close_position with a quantity of 0 or less returns false and sends
\* the gateway nothing; with a positive quantity it sends exactly one
\* market order, reduce-only, for that quantity, Sell for a LONG and Buy
\* for a SHORT, and returns true exactly when the gateway returned an
\* order id.
C22_ClosePosition ==
    \A i \in 1..Len(hist) :
       hist[i].call = "close_position" =>
          IF hist[i].qty <= 0
          THEN /\ ~hist[i].result
               /\ hist[i].gateway = <<>>
          ELSE /\ Len(hist[i].gateway) = 1
               /\ hist[i].gateway[1] =
                     [fn |-> "place_market_order",
                      side |-> IF hist[i].side = "LONG" THEN "Sell"
                               ELSE "Buy",
                      qty |-> hist[i].qty, reduce_only |-> TRUE]
               /\ hist[i].result = hist[i].accepted

\* C22 witness: a close of nothing that the gateway would have accepted,
\* and an accepted close of a SHORT of 2.
C22_Witness ==
    /\ \E i \in 1..Len(hist) :
          /\ hist[i].call = "close_position"
          /\ hist[i].qty = 0
          /\ hist[i].accepted
          /\ ~hist[i].result
    /\ \E i \in 1..Len(hist) :
          /\ hist[i].call = "close_position"
          /\ hist[i].side = "SHORT"
          /\ hist[i].qty = 2
          /\ hist[i].result
          /\ hist[i].gateway[1].side = "Buy"

\* C23: when the symbol is not in the cache and the gateway returns no
\* instrument record, calculate_order_qty returns None and open_long /
\* open_short return false with no order placed (the gateway saw the
\* instrument request only).
C23_NoInfoNoOrder ==
    \A i \in 1..Len(hist) :
       ( /\ hist[i].call \in {"open_long", "open_short"}
         /\ ~hist[i].cached
         /\ ~hist[i].info_ok )
       => /\ hist[i].sized = <<>>
          /\ ~hist[i].result
          /\ \A k \in 1..Len(hist[i].gateway) :
                hist[i].gateway[k].fn # "place_market_order"
          /\ hist[i].gateway = <<GatewayFetch>>

\* C23 witness: an open_long without instrument record that the gateway
\* would have accepted, after the other symbol's record was cached.
C23_Witness ==
    \E i \in 1..Len(hist), j \in 1..Len(hist) :
       /\ j < i
       /\ hist[i].call = "open_long"
       /\ ~hist[i].cached
       /\ ~hist[i].info_ok
       /\ hist[i].accepted
       /\ hist[j].symbol # hist[i].symbol
       /\ hist[j].result
       /\ instruments_cache[hist[j].symbol]

\* The calls in hist that fetched symbol s's instrument record from the
\* gateway and got one.
FetchedOk(s) ==
    {i \in 1..Len(hist) :
        /\ hist[i].symbol = s
        /\ hist[i].call # "close_position"
        /\ GatewayFetch \in {hist[i].gateway[k] :
                                k \in 1..Len(hist[i].gateway)}
        /\ hist[i].info_ok}

\* C25: per symbol at most one call ever gets the instrument record from
\* the gateway; every later call that needs the record has it without a
\* gateway request; a call whose fetch failed leaves the symbol out of the
\* cache, and the symbol is in the cache exactly when a fetch succeeded.
C25_FetchedOnce ==
    \A s \in OMSymbols :
       /\ Cardinality(FetchedOk(s)) <= 1
       /\ instruments_cache[s] <=> FetchedOk(s) # {}
       /\ \A i \in FetchedOk(s) : \A j \in 1..Len(hist) :
             (j > i /\ hist[j].symbol = s /\ hist[j].call # "close_position")
             => /\ hist[j].cached
                /\ GatewayFetch \notin {hist[j].gateway[k] :
                                           k \in 1..Len(hist[j].gateway)}
                /\ hist[j].call = "get_instrument_info" => hist[j].result
                /\ hist[j].call # "get_instrument_info"
                      => hist[j].sized # <<>>
       /\ \A j \in 1..Len(hist) :
             ( /\ hist[j].symbol = s
               /\ hist[j].call # "close_position"
               /\ ~hist[j].cached
               /\ ~hist[j].info_ok )
             => /\ hist[j].gateway = <<GatewayFetch>>
                /\ j < Len(hist) /\ hist[j + 1].symbol = s
                      => ~hist[j + 1].cached

\* C25 witness: open_short fetched the record, and the next call for the
\* symbol is served from the cache although the gateway would have failed.
C25_Witness ==
    /\ Len(hist) = 2
    /\ \A i \in 1..2 : hist[i].symbol = "ETHUSDT"
    /\ hist[1].call = "open_short" /\ hist[1].info_ok /\ ~hist[1].cached
    /\ hist[1].gateway[1] = GatewayFetch
    /\ hist[2].call = "get_instrument_info"
    /\ ~hist[2].info_ok
    /\ hist[2].result
    /\ hist[2].gateway = <<>>
    /\ ~instruments_cache["BTCUSDT"]

\* C24 as stated: for every notional, price and instrument record with
\* minOrderQty <= maxOrderQty, calculate_order_qty returns the quantity
\* notional / price floored to a multiple of qtyStep and clamped to
\* [minOrderQty, maxOrderQty] when that quantity is worth at least
\* minNotionalValue, and otherwise minNotionalValue / price floored and
\* clamped the same way.
C24_SizingFormula ==
    \A i \in 1..Len(hist) :
       LET h == hist[i]
           FloorClamp(usdt) ==
               Max(h.info.minOrderQty,
                   Min(((usdt \div (h.current_price * h.info.qtyStep))
                           * h.info.qtyStep),
                       h.info.maxOrderQty))
           first == FloorClamp(h.notional_usdt)
       IN  h.qty = IF first * h.current_price >= h.info.minNotionalValue
                   THEN first
                   ELSE FloorClamp(h.info.minNotionalValue)

\* C28: stop_trading clears trading_enabled and touches nothing else:
\* is_running, the trading loop and its tasks go on as they were, and the
\* cycles that follow compute their signal without awaiting an order;
\* start_trading sets trading_enabled, leaves a running bot and its loop as
\* they are and starts the bot when it was not running.
C28_TradingSwitch ==
    [][/\ (trading_enabled /\ ~trading_enabled')
          => /\ is_running' = is_running
             /\ loop' = loop
             /\ task' = task
             /\ positions' = positions
             /\ (is_running /\ loop = "sleep") => ENABLED LoopWake
       /\ StopTrading => ~trading_enabled'
       /\ StartTrading
          => /\ trading_enabled'
             /\ is_running'
             /\ is_running => loop' = loop
             /\ task' = task
       /\ (~trading_enabled /\ trading_enabled')
          => /\ is_running'
             /\ is_running => loop' = loop
       /\ \A s \in Symbols :
            (~trading_enabled /\ task[s].pc = "sm" /\ task'[s].pc # "sm")
            => task'[s].pc \in {"done", "postsync"}
      ]_vars

\* C28 witness: a LONG was opened, trading was stopped, and a later cycle
\* of the running loop decided the close in the cloud without sending it.
C28_Witness ==
    \E s \in Symbols :
       /\ ~trading_enabled
       /\ is_running
       /\ loop = "gather"
       /\ task[s].pc = "postsync"
       /\ task[s].op = "none"
       /\ task[s].signal = "Enter Cloud -> Close LONG"
       /\ positions[s].pos_state = "LONG"

\* C30: a process_symbol task whose candle fetch returns no candle or
\* fewer than 50 returns at once: the step changes nothing but the task
\* itself (no reconciliation, no state-machine step, no order: the
\* PositionState, the exchange and the instrument cache are untouched) and
\* last_candle_times is not updated; such a return happens only for a fetch
\* of fewer than 50 candles.
C30_ShortFetchSkips ==
    [][\A s \in Symbols :
         (task[s].pc = "fetch" /\ task'[s].pc = "short")
         => /\ \E n \in KlineCounts : n < 50 /\ PSFetchShort(s, n)
            /\ ~ PSFetchShort(s, CANDLES_LIMIT)
            /\ task'[s] = [IdleTask EXCEPT !.pc = "short"]
            /\ positions' = positions
            /\ last_candle_times' = last_candle_times
            /\ exch' = exch
            /\ instruments_cache' = instruments_cache
            /\ trading_enabled' = trading_enabled
            /\ is_running' = is_running
            /\ loop' = loop
      ]_vars

\* C30 witness: a cycle was skipped for too few candles while a LONG was
\* held and a candle not yet processed had closed.
C30_Witness ==
    \E s \in Symbols :
       /\ task[s].pc = "short"
       /\ positions[s].pos_state = "LONG"
       /\ trading_enabled
       /\ last_candle_times[s] > 0
       /\ last_candle_times[s] < market[s]

\* C27, the part about the symbols: force_close_all begins with
\* the first symbol's reconciliation; a reconciliation places no order and
\* is followed by the close exactly when the reconciled state is not FLAT;
\* the close is one reduce-only order for the reconciled quantity; an
\* accepted close makes the state FLAT with qty, entry_price and
\* unrealized_pnl 0 and counts as closed, a refused one leaves the state and
\* counts as failed.
C27_ForceCloseSteps ==
    [][/\ (fc.pc = "idle" /\ fc' # fc)
          => /\ fc'.pc = "sync" /\ fc'.i = 1
             /\ positions' = positions /\ exch' = exch
       /\ \A resp \in PositionResponses(exch[SymbolList[Max(fc.i, 1)]]) :
            FCSync(resp)
            => LET s == SymbolList[fc.i]
               IN  /\ exch' = exch
                   /\ resp.retCode = 0 =>
                        (positions'[s].pos_state # "FLAT") = (exch[s].size > 0)
                   /\ IF positions'[s].pos_state # "FLAT"
                      THEN /\ fc'.pc = "close"
                           /\ fc'.i = fc.i
                           /\ fc'.qty = positions'[s].qty
                           /\ fc'.side = positions'[s].pos_state
                      ELSE fc'.pc # "close"
       /\ (fc.pc # "close" /\ fc'.pc = "close") => fc.pc = "sync"
       /\ \A outcome \in OrderAnswers :
            FCClose(outcome)
            => LET s == SymbolList[fc.i]
               IN  /\ exch'[s] \in
                        {exch[s],
                         ExchFill(exch[s],
                                  IF fc.side = "LONG" THEN "Sell" ELSE "Buy",
                                  fc.qty, TRUE, 0)}
                   /\ exch'[s].size <= exch[s].size
                   /\ IF outcome # "rejected"
                      THEN /\ positions'[s].pos_state = "FLAT"
                           /\ positions'[s].qty = 0
                           /\ positions'[s].entry_price = 0
                           /\ positions'[s].unrealized_pnl = 0
                      ELSE positions' = positions
      ]_vars

\* C27, the part about the result: when force_close_all has gone through
\* the symbols, the reply to the caller carries the counts of the symbols
\* closed and failed.
C27_ReplyCarriesCounts ==
    [][\A outcome \in OrderAnswers, resp \in PositionResponses(NoPosition) :
         ( /\ fc.pc # "idle" /\ fc'.pc = "idle"
           /\ FCClose(outcome) \/ FCSync(resp) )
         => LET closed == fc.closed_count
                            + IF fc.pc = "close" /\ outcome # "rejected"
                              THEN 1 ELSE 0
                failed == fc.failed_count
                            + IF fc.pc = "close" /\ outcome = "rejected"
                              THEN 1 ELSE 0
            IN  /\ {"closed", "failed"} \subseteq DOMAIN ForceCloseReply
                /\ ForceCloseReply.closed = closed
                /\ ForceCloseReply.failed = failed
      ]_vars

\* C27 as stated: both parts.
C27_Original == C27_ForceCloseSteps /\ C27_ReplyCarriesCounts

\* C27 witness: force_close_all found the exchange's SHORT, which the
\* local state did not have, and is at its close order.
C27_Witness ==
    /\ fc.pc = "close"
    /\ fc.side = "SHORT"
    /\ fc.qty = exch[SymbolList[fc.i]].size
    /\ fc.qty # calculate_expected_qty(exch[SymbolList[fc.i]].avgPrice)

\* C26 as stated: an update_config call with valid fields applies them to
\* the settings, restarts the bot (it runs, with a fresh loop and no task
\* of the old one) and reports success.
C26_Original ==
    [][(hist' # hist /\ hist'[Len(hist')].op = "update_config")
       => /\ \E data \in ConfigData :
               hist'[Len(hist')].settings = ApplyConfig(CtlNow.settings, data)
          /\ hist'[Len(hist')].status = "success"
          /\ is_running'
          /\ loop' = "sleep"
          /\ \A s \in Symbols : task'[s].pc \notin InFlight
      ]_vars

\* What update_config does: the fields are applied, the bot, its loop and
\* its tasks are left as they were, and the call reports an error.
C26_AppliedWithoutRestart ==
    [][(hist' # hist /\ hist'[Len(hist')].op = "update_config")
       => /\ \E data \in ConfigData :
               hist'[Len(hist')].settings = ApplyConfig(CtlNow.settings, data)
          /\ hist'[Len(hist')].status = "error"
          /\ is_running' = is_running
          /\ loop' = loop
          /\ task' = task
      ]_vars

\* C26 witness: update_config was called with a new leverage and position
\* size while the loop was in a cycle: the settings are changed, the cycle
\* goes on, the reply was an error.
C26_Witness ==
    /\ hist # <<>>
    /\ CtlNow.op = "update_config"
    /\ CtlNow.status = "error"
    /\ CtlNow.settings = [POSITION_SIZE_USDT |-> 200, LEVERAGE |-> 10]
    /\ is_running
    /\ loop = "gather"
    /\ \E s \in Symbols : task[s].pc = "fetch"

\* C29: in start(), connection_ok is written by the connection test alone
\* and is true exactly when the ticker request returned data, whatever the
\* set_leverage requests returned; a failed, refused or raising request
\* never ends start(): every set_leverage answer leads on to the next
\* symbol or to the connection test, and every ticker answer to the
\* creation of the trading loop, with is_running still set by start().
C29_ConnectionFromTicker ==
    [][hist' # hist =>
         LET e == hist'[Len(hist')]
         IN  /\ e.op = "get_ticker"
                => /\ CtlNow.pc = "ticker"
                   /\ e.connection_ok = (e.answer = "data")
                   /\ e.init_errors = CtlNow.init_errors
                   /\ e.status = "started"
                   /\ e.pc = "idle"
                   /\ loop' = "sleep"
                   /\ is_running' = is_running
             /\ e.op # "get_ticker"
                => /\ e.connection_ok = CtlNow.connection_ok
                   /\ loop' = loop
             /\ e.op = "set_leverage"
                => /\ CtlNow.pc = "leverage"
                   /\ e.pc = IF CtlNow.i < 2 THEN "leverage" ELSE "ticker"
                   /\ is_running' = is_running
             /\ (e.op = "start" /\ ~is_running)
                => /\ is_running'
                   /\ e.pc = "leverage" /\ e.i = 1
             /\ (e.op = "start" /\ is_running)
                => /\ e.pc = CtlNow.pc
                   /\ is_running'
      ]_vars

\* C29 witness: the leverage of the second symbol was refused, the ticker
\* request raised, connection_ok is false, and the loop created by start()
\* is in a cycle.
C29_Witness ==
    /\ Len(hist) = 4
    /\ hist[2].answer = "ok"
    /\ hist[3].answer = "refused"
    /\ hist[4].op = "get_ticker"
    /\ hist[4].answer = "raises"
    /\ ~hist[4].connection_ok
    /\ hist[4].init_errors = 1
    /\ is_running
    /\ loop = "gather"

\* C31: in calculate_supertrend, at every index after the first the upper
\* band is at most the previous upper band unless the previous close was
\* above the previous upper band, and the lower band is at least the previous
\* lower band unless the previous close was below the previous lower band
\* (for bands that are numbers).
C31_BandsRatchet ==
    \A i \in 2..Len(hist) :
        (hist[i].filled /\ ~hist[i].band_nan) =>
            /\ \/ hist[i].upper_band <= hist[i - 1].upper_band
               \/ hist[i - 1].close > hist[i - 1].upper_band
            /\ \/ hist[i].lower_band >= hist[i - 1].lower_band
               \/ hist[i - 1].close < hist[i - 1].lower_band

\* C31 witness: the basic upper band rose and the upper band stayed, rose
\* again after a close above the band and was taken; the basic lower band
\* fell and the lower band stayed.
C31_Witness ==
    /\ \A i \in 1..Len(hist) : hist[i].filled
    /\ hist[2].basic_upper > hist[1].upper_band
    /\ hist[2].upper_band = hist[1].upper_band
    /\ hist[2].basic_lower < hist[1].lower_band
    /\ hist[2].lower_band = hist[1].lower_band
    /\ hist[2].close > hist[2].upper_band
    /\ hist[3].upper_band > hist[2].upper_band

\* C32: get_zone returns OVER exactly when close > upper_cloud, UNDER exactly
\* when close <= upper_cloud and close < lower_cloud, and IN otherwise; when
\* lower_cloud <= upper_cloud (as for every cloud calculate_supertrend_cloud
\* returns) a close equal to either boundary gives IN.
C32_ZoneRule ==
    \A k \in 1..Len(hist) :
        LET e == hist[k]
        IN  /\ e.zone = "OVER" <=> e.close > e.upper_cloud
            /\ e.zone = "UNDER" <=>
                   (e.close <= e.upper_cloud /\ e.close < e.lower_cloud)
            /\ e.zone = "IN" <=>
                   ~(e.close > e.upper_cloud)
                   /\ ~(e.close <= e.upper_cloud /\ e.close < e.lower_cloud)
            /\ e.lower_cloud <= e.upper_cloud =>
                   /\ e.close = e.upper_cloud => e.zone = "IN"
                   /\ e.close = e.lower_cloud => e.zone = "IN"
            /\ e.from_cloud => e.lower_cloud <= e.upper_cloud

\* C32 witness: a close on the upper boundary of a cloud with the lower
\* boundary below it, found IN.
C32_Witness ==
    /\ Len(hist) = 1
    /\ hist[1].from_cloud
    /\ hist[1].close = hist[1].upper_cloud
    /\ hist[1].lower_cloud < hist[1].upper_cloud
    /\ hist[1].zone = "IN"

\* C33: whatever the order of start() and stop() calls, at most one
\* trading_loop task is alive at any time, and a start() on a running bot
\* creates no loop (every loop was created by a start() that found the bot
\* stopped).
C33_OneLoop ==
    /\ Cardinality(LiveLoops) <= 1
    /\ Cardinality({k \in 1..Len(hist) : hist[k].coro = "trading_loop"})
           <= Cardinality({k \in 1..Len(hist) : hist[k].coro = "start"})

\* C33 witness: stop() and start() were called while the first loop slept;
\* the first loop woke up, found is_running true, and runs its cycles
\* beside the second loop.
C33_Witness ==
    /\ is_running
    /\ Cardinality(LiveLoops) = 2
    /\ \A k \in LiveLoops : hist[k].pc = "gather"

\* C34: the bot never places an opening (non-reduce-only) order for a symbol
\* while the exchange holds a non-zero position on that symbol: in every
\* step where the exchange accepts an opening order of the bot, the
\* exchange's position on the symbol is empty.
C34_NoOpenOnPosition ==
    [][\A s \in Symbols :
          (\E info_ok \in BOOLEAN, outcome \in {"unfilled", "filled"} :
               OMOpen(s, info_ok, outcome))
          => exch[s].size = 0
      ]_vars

\* C34 witness: the exchange holds a long position, the local state is FLAT
\* after a reconciliation whose position request failed, and the symbol's
\* task is about to send the opening order of a short.
C34_Witness ==
    \E s \in Symbols :
        /\ exch[s].size > 0
        /\ exch[s].side = "Buy"
        /\ positions[s].pos_state = "FLAT"
        /\ task[s].pc = "order"
        /\ task[s].op = "open_short"

\* C35: once stop_trading has completed, no opening (non-reduce-only) order
\* reaches the exchange until start_trading is called: in every step where
\* the exchange accepts an opening order of the bot, trading_enabled is
\* true.
C35_NoOpenAfterStopTrading ==
    [][\A s \in Symbols :
          (\E info_ok \in BOOLEAN, outcome \in {"unfilled", "filled"} :
               OMOpen(s, info_ok, outcome))
          => trading_enabled
      ]_vars

\* C35 witness: stop_trading ran while a reverse was between its close and
\* its open (the settle delay); the opening order is still to be sent.
C35_Witness ==
    \E s \in Symbols :
        /\ ~trading_enabled
        /\ task[s].pc = "order"
        /\ IsReverse(task[s].op)
        /\ task[s].phase = "open"

\* C36: when force_close_all runs beside the trading loop and every close
\* it attempts succeeds, every configured symbol's local pos_state is FLAT at
\* the moment force_close_all returns.
C36_AllFlatAtReturn ==
    [][(fc.pc # "returned" /\ fc'.pc = "returned" /\ fc'.failed_count = 0)
          => \A s \in FcSymbols : positions'[s].pos_state = "FLAT"
      ]_vars

\* C36 witness: force_close_all has returned after closing one position
\* with no failure, and the first symbol is LONG in the local state.
C36_Witness ==
    /\ fc.pc = "returned"
    /\ fc.failed_count = 0
    /\ fc.closed_count = 1
    /\ positions[FcSymbolList[1]].pos_state = "LONG"

C38_AbortedCandleNotRecorded ==
    \A s \in Symbols :
        (task[s].pc = "failed" /\ task[s].candle # 0)
            => last_candle_times[s] # task[s].candle

\* C38 witness: the task of the second candle raised before its
\* reconciliation; the next cycle found the candle recorded and returned
\* without processing it, the state still holding the first candle's time.
C38_Witness ==
    \E s \in Symbols :
        /\ task[s].pc = "same"
        /\ market[s] = 2
        /\ last_candle_times[s] = 2
        /\ positions[s].last_candle_time = 1

\* C39: whenever calculate_order_qty returns a quantity and
\* maxOrderQty * price >= minNotionalValue, the returned quantity is worth
\* at least minNotionalValue at the price.
C39_NotionalReached ==
    \A i \in 1..Len(hist) :
        LET h == hist[i]
        IN  h.info.maxOrderQty * h.current_price >= h.info.minNotionalValue
                => h.qty * h.current_price >= h.info.minNotionalValue

\* C39 witness: the first quantity was worth less than minNotionalValue,
\* the second one is minNotionalValue / price floored to the step, within
\* the limits, and worth less than minNotionalValue too.
C39_Witness ==
    /\ Len(hist) = 1
    /\ hist[1].info.minOrderQty < hist[1].qty
    /\ hist[1].qty < hist[1].info.maxOrderQty
    /\ hist[1].qty * hist[1].current_price < hist[1].info.minNotionalValue
    /\ (hist[1].qty + hist[1].info.qtyStep) * hist[1].current_price
           >= hist[1].info.minNotionalValue

====
